---- MODULE Spec2Model ----
(***************************************************************************)
(* Model of agent-funpic-act: the scripted pipeline with its manifest      *)
(* (internal/pipeline), the stdio transport and the MCP client             *)
(* (internal/client).                                                      *)
(*                                                                         *)
(* Abstractions: timestamps (created_at, updated_at, started_at,           *)
(* completed_at) and the opaque stage outputs are left out of the          *)
(* manifest; file paths and tool arguments are left out of tool calls.     *)
(* Only the lightweight (scripted) branch of Pipeline.Execute is modelled. *)
(***************************************************************************)
EXTENDS Integers, Sequences, FiniteSets, TLC

VARIABLES
    \* ---- scripted pipeline (internal/pipeline) ----
    maxRetries,   \* Pipeline.maxRetries
    disk,         \* the file at manifestPath
    tmp,          \* the file at manifestPath + ".tmp"
    mem,          \* the *Manifest held by the running Execute
    pc,           \* position of the process inside Execute
    stages,       \* the planned stage list of the running Execute
    idx,          \* index of the loop over stages
    saveCtx,      \* which Save call of Execute is in progress
    ret,          \* what the last Execute returned
    ctx,          \* the context given to Execute
    hist,         \* history of the runs (observations only, never read by the code)
    \* ---- stdio transport (StdioTransport) ----
    nextID,       \* StdioTransport.nextID
    pendingReqs,  \* StdioTransport.pendingReqs: id -> content of its buffered channel
    mu,           \* StdioTransport.mu: "free", or "reader" while readLoop holds it
    callers,      \* the goroutines calling SendRequest: position, id, return value
    stdout,       \* lines the child has written and readLoop has not read yet
    reader,       \* readLoop: position, and the frame it is delivering
    thist,        \* history of the transport (observations only)
    \* ---- MCP client (internal/client/client.go) over one transport ----
    ckind,        \* the Transport implementation behind the Client
    cinit,        \* Mark3LabsTransport.initialized
    cserver,      \* whether Client.serverName/serverVer hold the server's answer
    csent,        \* methods of the requests that reached the server, in order
    cnotes,       \* notifications that reached the server, in order
    clast,        \* the last Client call: observation of what it did and returned
    cout,         \* the values the last Client call returned: (result, error)
    chand,        \* what the transport did in the last Initialize (observation only)
    \* ---- life cycle of one StdioTransport: Start, SendRequest, Close ----
    lproc,        \* StdioTransport.cmd: "none", or its process "running", "exited", "killed"
    lstdin,       \* StdioTransport.stdin: "nil", "open" or "closed"
    lreader,      \* the readLoop started by the last Start: "none", "running", "done"
    lorphans,     \* readLoop goroutines of earlier Starts that have not returned
    lreaderDone,  \* the channel StdioTransport.readerDone: "open" or "closed"
    lpc,          \* position of the running Close, "idle" when none runs
    lclosed,      \* a Close has returned
    lstarts,      \* number of Start calls so far
    lpanic,       \* the program has panicked
    llast,        \* the last call on the transport and what it returned
    \* ---- qualified tool names (ToolAdapter, pure functions) ----
    nserver,      \* a server name
    ntool,        \* a tool name
    nqualified,   \* the UnifiedTool built from them, once built
    nparsed,      \* what parseToolName returned for its name, once parsed
    \* ---- ToolAdapter over its MCP clients ----
    aclients,     \* ToolAdapter.mcpClients: server name -> the tools its server lists
    toolsCache,   \* ToolAdapter.toolsCache
    alast,        \* the last call on the adapter and what it did and returned
    afirst,       \* what the first DiscoverAndConvertTools returned (observation only)
    \* ---- one provider conversation (claude, openrouter, gemini): Execute ----
    vkind,        \* the provider of the conversation
    vcfg,         \* FullAIConversationConfig: MaxRounds, MaxTokens, MaxCostUSD (in tokens)
    vpc,          \* position inside Execute
    vround,       \* the loop variable round
    vtokens,      \* Conversation.tokensUsed
    vresp,        \* the last model response (the assistant turn)
    vk,           \* tool calls of that response handed to ExecuteToolCall so far, plus one
    vappended,    \* the messages appended to the conversation after that assistant turn
    vclock,       \* the clock is past TimeoutSeconds; the context is cancelled
    vret,         \* what Execute returned
    vcalls,       \* number of model calls made by this Execute (observation only)
    \* ---- one call of pipeline.ValidateTools ----
    qavailable,   \* the argument available
    qrequired,    \* the argument required
    qret          \* the error returned

pvars == <<maxRetries, disk, tmp, mem, pc, stages, idx, saveCtx, ret, hist, ctx>>

tvars == <<nextID, pendingReqs, mu, callers, stdout, reader, thist>>

cvars == <<ckind, cinit, cserver, csent, cnotes, clast, cout, chand>>

nvars == <<nserver, ntool, nqualified, nparsed>>

avars == <<aclients, toolsCache, alast, afirst>>

vvars == <<vkind, vcfg, vpc, vround, vtokens, vresp, vk, vappended, vclock, vret, vcalls>>

qvars == <<qavailable, qrequired, qret>>

lvars == <<lproc, lstdin, lreader, lorphans, lreaderDone, lpc, lclosed, lstarts,
           lpanic, llast>>

-----------------------------------------------------------------------------
(* Bounds *)

MaxRetriesBound == 2
MaxRuns == 2
MaxCancelledRuns == 1
MaxRequests == 2
MaxFrames == 2
MaxCalls == 3
MaxBlocks == 2
MaxStarts == 2
MaxNameLen == 2
MaxRoundsCfg == 2
MaxToolCalls == 2
MaxModelCalls == 3
MaxTools == 2

-----------------------------------------------------------------------------
(* pkg/types: stages and statuses *)

StageOrder ==
    <<"segment_person", "estimate_landmarks", "render_motion", "search_music", "compose">>

Stages == {StageOrder[i] : i \in 1..Len(StageOrder)}

OptionalStages == Stages \ {"compose"}

PipelineIds == {"p1", "p2"}

Pos(s) == CHOOSE i \in 1..Len(StageOrder) : StageOrder[i] = s

\* llm.GetDefaultDecision: every stage is needed
GetDefaultDecision == OptionalStages

-----------------------------------------------------------------------------
(* The manifest *)

\* Stages[stage] == nil
NilState == [status |-> "nil", retry_count |-> 0, error |-> ""]

NilResult == [present |-> FALSE, segmented |-> FALSE, landmarks |-> FALSE,
              motion |-> FALSE, music |-> "nil", final |-> FALSE]

NilAnalysis == [present |-> FALSE, decision |-> {}]

NewManifest(pipelineID) ==
    [pipeline_id   |-> pipelineID,
     llm_analysis  |-> NilAnalysis,
     current_stage |-> "init",
     stages        |-> [s \in Stages |-> NilState],
     result        |-> NilResult]

NoManifest == NewManifest("")

\* json.MarshalIndent of the manifest: omitempty drops an empty music_tracks list
Marshal(m) ==
    [m EXCEPT !.result.music = IF @ = "empty" THEN "nil" ELSE @]

NoFile      == [kind |-> "absent",  doc |-> NoManifest]
PartialFile == [kind |-> "partial", doc |-> NoManifest]
JsonFile(m) == [kind |-> "json",    doc |-> Marshal(m)]

\* Mutant of StartStage: current_stage is not moved to the stage
StartStage_KeepCurrent(m, s) ==
    [m EXCEPT !.stages[s].status = "running"]

\* GetStageState followed by the assignments of StartStage
StartStage(m, s) ==
    [m EXCEPT !.stages[s].status = "running", !.current_stage = s]

\* Mutant of CompleteStage: the status assignment is missing
CompleteStage_NoStatus(m, s) ==
    m

CompleteStage(m, s) ==
    [m EXCEPT !.stages[s].status = "completed"]

\* Mutant of FailStage: the retry counter is not incremented
FailStage_NoCount(m, s, err) ==
    [m EXCEPT !.stages[s].status = "failed",
              !.stages[s].error = err]

FailStage(m, s, err) ==
    [m EXCEPT !.stages[s].status = "failed",
              !.stages[s].error = err,
              !.stages[s].retry_count = @ + 1]

SkipStage(m, s) ==
    [m EXCEPT !.stages[s].status = "skipped"]

\* Mutant of IsStageCompleted: the wrong status constant is compared
IsStageCompleted_WrongStatus(m, s) ==
    m.stages[s].status = "skipped"

IsStageCompleted(m, s) ==
    m.stages[s].status = "completed"

CanRetryStage(m, s, max) ==
    IF m.stages[s].status = "nil" THEN TRUE ELSE m.stages[s].retry_count < max

\* The stage list Execute builds from the decision
PlanStages(decision) ==
    SelectSeq(StageOrder, LAMBDA s : s = "compose" \/ s \in decision)

DecisionOf(m) ==
    IF m.llm_analysis.present THEN m.llm_analysis.decision ELSE GetDefaultDecision

-----------------------------------------------------------------------------
(* Stage bodies (internal/pipeline/steps.go).  A body is the set of its      *)
(* possible outcomes on manifest m: what it returns (out, err), the manifest *)
(* it leaves in memory, and the MCP tools it called.  out = "panic" is the   *)
(* nil-pointer abort of a body that uses manifest.Result while it is nil.    *)

Outcome(out, m, err, tools) == [out |-> out, m |-> m, err |-> err, tools |-> tools]

ExecuteSegmentPerson(m) ==
    { Outcome("fail", m, "detect tool failed", {"detect"}),
      Outcome("fail", m, "detect returned no content", {"detect"}),
      Outcome("fail", m, "fill tool failed", {"detect", "fill"}),
      Outcome("ok",
              [CompleteStage(m, "segment_person") EXCEPT
                    !.result.present = TRUE, !.result.segmented = TRUE],
              "", {"detect", "fill"}) }

ExecuteEstimateLandmarks(m) ==
    IF ~m.result.present
    THEN { Outcome("panic", m, "", {}) }
    ELSE { Outcome("fail", m, "analyze_image_from_path (pose) tool failed",
                   {"analyze_image_from_path"}),
           Outcome("fail", m, "pose estimation returned no content",
                   {"analyze_image_from_path"}),
           Outcome("ok",
                   [CompleteStage(m, "estimate_landmarks") EXCEPT !.result.landmarks = TRUE],
                   "", {"analyze_image_from_path"}) }

ExecuteRenderMotion(m) ==
    IF ~m.result.present
    THEN { Outcome("panic", m, "", {}) }
    ELSE { Outcome("fail", m, "ffmpeg head shake failed", {}),
           Outcome("ok",
                   [CompleteStage(m, "render_motion") EXCEPT !.result.motion = TRUE],
                   "", {}) }

ExecuteSearchMusic(m) ==
    IF ~m.result.present
    THEN { Outcome("panic", SkipStage(m, "search_music"), "", {"SearchRecordings"}),
           Outcome("panic", m, "", {"SearchRecordings"}) }
    ELSE { \* the tool call failed: the stage is skipped and the body returns nil
           Outcome("ok",
                   [SkipStage(m, "search_music") EXCEPT !.result.music = "empty"],
                   "", {"SearchRecordings"}),
           Outcome("ok",
                   [CompleteStage(m, "search_music") EXCEPT !.result.music = "some"],
                   "", {"SearchRecordings"}),
           Outcome("ok",
                   [CompleteStage(m, "search_music") EXCEPT !.result.music = "empty"],
                   "", {"SearchRecordings"}) }

ExecuteCompose(m) ==
    IF ~m.result.present
    THEN { Outcome("panic", m, "", {}) }
    ELSE { Outcome("fail", m, "failed to copy output", {}),
           Outcome("ok",
                   [CompleteStage(m, "compose") EXCEPT !.result.final = TRUE],
                   "", {}) }

GetStepForStage(s, m) ==
    CASE s = "segment_person"     -> ExecuteSegmentPerson(m)
      [] s = "estimate_landmarks" -> ExecuteEstimateLandmarks(m)
      [] s = "render_motion"      -> ExecuteRenderMotion(m)
      [] s = "search_music"       -> ExecuteSearchMusic(m)
      [] s = "compose"            -> ExecuteCompose(m)

\* The context Execute hands to every body: done once it is cancelled;
\* atStart when it was already done as the running body was called
LiveContext == [done |-> FALSE, atStart |-> FALSE]

\* What a body can do under context c.  Tool calls and the copy of compose
\* may still succeed; the ffmpeg of render_motion (steps.go 205-219) is
\* started with exec.CommandContext and fails at once when c is done
UnderContext(c, s, outcomes) ==
    IF c.atStart /\ s = "render_motion"
    THEN {o \in outcomes : o.out # "ok"}
    ELSE outcomes

-----------------------------------------------------------------------------
(* Pipeline.Execute, step by step *)

Ret(kind, stage, err) == [kind |-> kind, stage |-> stage, err |-> err]

NoStageCount == [s \in Stages |-> 0]

HistInit ==
    [runs      |-> 0,            \* Execute calls started
     runStart  |-> NoManifest,   \* the manifest the running Execute started from
     prevRet   |-> Ret("none", "", ""),  \* what the Execute before this one returned
     invoked   |-> <<>>,         \* stage bodies invoked by this Execute, in order
     toolCalls |-> {},           \* tools called by this Execute
     attempts  |-> NoStageCount, \* body invocations per stage, over all runs
     fails     |-> NoStageCount, \* bodies that returned a failure, per stage, over all runs
     committed |-> NoFile,       \* the file written by the last Save that returned nil
     lastSave  |-> "none"]       \* how the last Save call ended

\* Manifests a file at manifestPath may hold before the first run: none, or a
\* fresh manifest carrying a recorded analysis
SeedFiles ==
    {NoFile} \cup
    { JsonFile([NewManifest("p1") EXCEPT
                   !.llm_analysis = [present |-> TRUE, decision |-> d]])
        : d \in SUBSET OptionalStages }

PInit ==
    /\ maxRetries \in 0..MaxRetriesBound
    /\ disk \in SeedFiles
    /\ tmp = NoFile
    /\ mem = NoManifest
    /\ pc = "idle"
    /\ stages = <<>>
    /\ idx = 1
    /\ saveCtx = "none"
    /\ ret = Ret("none", "", "")
    /\ hist = [HistInit EXCEPT !.committed = disk]
    /\ ctx = LiveContext

\* No pipeline has run and none will
PIdle ==
    /\ maxRetries = 0
    /\ disk = NoFile
    /\ tmp = NoFile
    /\ mem = NoManifest
    /\ pc = "idle"
    /\ stages = <<>>
    /\ idx = 1
    /\ saveCtx = "none"
    /\ ret = Ret("none", "", "")
    /\ hist = HistInit
    /\ ctx = LiveContext

\* Execute returns r to its caller; the process keeps nothing in memory
Return(r) ==
    /\ ret' = r
    /\ pc' = "idle"
    /\ mem' = NoManifest
    /\ saveCtx' = "none"

\* pipeline.go 59-102: load or create the manifest, plan the stages
ExecuteBegin(pipelineID) ==
    /\ pc = "idle"
    /\ hist.runs < MaxRuns
    /\ UNCHANGED <<maxRetries, disk, tmp>>
    /\ IF disk.kind = "partial"
       THEN /\ Return(Ret("load_failed", "", "failed to load manifest"))
            /\ UNCHANGED <<stages, idx>>
            /\ hist' = [hist EXCEPT !.runs = @ + 1, !.prevRet = ret,
                                    !.invoked = <<>>, !.toolCalls = {}]
       ELSE LET m == IF disk.kind = "absent" THEN NewManifest(pipelineID) ELSE disk.doc
            IN /\ mem' = m
               /\ stages' = PlanStages(DecisionOf(m))
               /\ idx' = 1
               /\ pc' = "loop"
               /\ UNCHANGED <<saveCtx, ret>>
               /\ hist' = [hist EXCEPT !.runs = @ + 1, !.prevRet = ret, !.runStart = m,
                                       !.invoked = <<>>, !.toolCalls = {}]
    /\ ctx' = LiveContext
    /\ UNCHANGED <<tvars, cvars, lvars, nvars, avars, vvars, qvars>>

\* pipeline.go 107-110
LoopSkipCompleted ==
    /\ pc = "loop" /\ idx <= Len(stages)
    /\ IsStageCompleted(mem, stages[idx])
    /\ idx' = idx + 1
    /\ UNCHANGED <<maxRetries, disk, tmp, mem, pc, stages, saveCtx, ret, hist>>
    /\ UNCHANGED <<ctx, tvars, cvars, lvars, nvars, avars, vvars, qvars>>

\* pipeline.go 113-115
LoopExceeded ==
    /\ pc = "loop" /\ idx <= Len(stages)
    /\ ~IsStageCompleted(mem, stages[idx])
    /\ ~CanRetryStage(mem, stages[idx], maxRetries)
    /\ Return(Ret("exceeded", stages[idx], "exceeded max retries"))
    /\ UNCHANGED <<maxRetries, disk, tmp, stages, idx, hist>>
    /\ UNCHANGED <<ctx, tvars, cvars, lvars, nvars, avars, vvars, qvars>>

\* pipeline.go 118, 200-208: executeStageWithRetry up to the call of the body
StageStart ==
    /\ pc = "loop" /\ idx <= Len(stages)
    /\ ~IsStageCompleted(mem, stages[idx])
    /\ CanRetryStage(mem, stages[idx], maxRetries)
    /\ mem' = StartStage(mem, stages[idx])
    /\ pc' = "body"
    /\ hist' = [hist EXCEPT !.invoked = Append(@, stages[idx]),
                            !.attempts[stages[idx]] = @ + 1]
    /\ ctx' = [ctx EXCEPT !.atStart = ctx.done]
    /\ UNCHANGED <<maxRetries, disk, tmp, stages, idx, saveCtx, ret>>
    /\ UNCHANGED <<tvars, cvars, lvars, nvars, avars, vvars, qvars>>

\* pipeline.go 211-216 and 118-128: the body returns; on failure FailStage,
\* then Save on either path
StageBody ==
    /\ pc = "body"
    /\ \E o \in UnderContext(ctx, stages[idx], GetStepForStage(stages[idx], mem)) :
         /\ hist' = [hist EXCEPT !.toolCalls = @ \cup o.tools,
                                 !.fails[stages[idx]] = IF o.out = "fail" THEN @ + 1 ELSE @]
         /\ CASE o.out = "ok" ->
                   /\ mem' = o.m
                   /\ pc' = "save"
                   /\ saveCtx' = "stage_ok"
                   /\ UNCHANGED ret
              [] o.out = "fail" ->
                   /\ mem' = FailStage(o.m, stages[idx], o.err)
                   /\ pc' = "save"
                   /\ saveCtx' = "stage_fail"
                   /\ UNCHANGED ret
              [] o.out = "panic" ->
                   Return(Ret("panic", stages[idx], "nil pointer dereference"))
    /\ UNCHANGED <<maxRetries, disk, tmp, stages, idx>>
    /\ UNCHANGED <<ctx, tvars, cvars, lvars, nvars, avars, vvars, qvars>>

\* pipeline.go 135-137
LoopEnd ==
    /\ pc = "loop" /\ idx > Len(stages)
    /\ mem' = [mem EXCEPT !.current_stage = "complete"]
    /\ pc' = "save"
    /\ saveCtx' = "final"
    /\ UNCHANGED <<maxRetries, disk, tmp, stages, idx, ret, hist>>
    /\ UNCHANGED <<ctx, tvars, cvars, lvars, nvars, avars, vvars, qvars>>

-----------------------------------------------------------------------------
(* Manifest.Save (manifest.go 85-106), step by step: os.WriteFile creates or *)
(* truncates the temp file and then writes the data; os.Rename commits.      *)

\* Mutant of AfterWriteTemp: Save writes the manifest file in place
AfterWriteTemp_InPlace(d, t, f) == [path |-> f, temp |-> t]

\* The two files after os.WriteFile(tempPath, ...) left content f behind
AfterWriteTemp(d, t, f) == [path |-> d, temp |-> f]

\* Mutant of SaveReturns: the error of the Save after a successful stage is
\* only logged, as it is after a failed stage
SaveReturns_IgnoreError(ok) ==
    CASE saveCtx = "stage_ok" ->
            /\ pc' = "loop"
            /\ idx' = idx + 1
            /\ saveCtx' = "none"
            /\ UNCHANGED <<mem, ret>>
      [] saveCtx = "stage_fail" ->
            /\ Return(Ret("stage_failed", stages[idx], mem.stages[stages[idx]].error))
            /\ UNCHANGED idx
      [] saveCtx = "final" ->
            /\ Return(IF ok THEN Ret("ok", "", "")
                            ELSE Ret("final_save_failed", "", "failed to save final manifest"))
            /\ UNCHANGED idx

\* What Execute does with the value Save returned (pipeline.go 121-142)
SaveReturns(ok) ==
    CASE saveCtx = "stage_ok" ->
            IF ok
            THEN /\ pc' = "loop"
                 /\ idx' = idx + 1
                 /\ saveCtx' = "none"
                 /\ UNCHANGED <<mem, ret>>
            ELSE /\ Return(Ret("save_failed", stages[idx], "failed to save manifest"))
                 /\ UNCHANGED idx
      [] saveCtx = "stage_fail" ->
            /\ Return(Ret("stage_failed", stages[idx], mem.stages[stages[idx]].error))
            /\ UNCHANGED idx
      [] saveCtx = "final" ->
            /\ Return(IF ok THEN Ret("ok", "", "")
                            ELSE Ret("final_save_failed", "", "failed to save final manifest"))
            /\ UNCHANGED idx

\* os.WriteFile opened the temp file (created or truncated it)
SaveOpen ==
    /\ pc = "save"
    /\ LET f == AfterWriteTemp(disk, tmp, PartialFile)
       IN disk' = f.path /\ tmp' = f.temp
    /\ pc' = "save_write"
    /\ hist' = [hist EXCEPT !.lastSave = "in_progress"]
    /\ UNCHANGED <<maxRetries, mem, stages, idx, saveCtx, ret>>
    /\ UNCHANGED <<ctx, tvars, cvars, lvars, nvars, avars, vvars, qvars>>

\* os.WriteFile could not open the temp file: Save returns an error
SaveOpenFail ==
    /\ pc = "save"
    /\ SaveReturns(FALSE)
    /\ hist' = [hist EXCEPT !.lastSave = "write_failed"]
    /\ UNCHANGED <<maxRetries, disk, tmp, stages>>
    /\ UNCHANGED <<ctx, tvars, cvars, lvars, nvars, avars, vvars, qvars>>

\* os.WriteFile wrote the serialized manifest
SaveWrite ==
    /\ pc = "save_write"
    /\ LET f == AfterWriteTemp(disk, tmp, JsonFile(mem))
       IN disk' = f.path /\ tmp' = f.temp
    /\ pc' = "save_rename"
    /\ UNCHANGED <<maxRetries, mem, stages, idx, saveCtx, ret, hist>>
    /\ UNCHANGED <<ctx, tvars, cvars, lvars, nvars, avars, vvars, qvars>>

\* os.WriteFile failed while writing: the temp file stays truncated
SaveWriteFail ==
    /\ pc = "save_write"
    /\ SaveReturns(FALSE)
    /\ hist' = [hist EXCEPT !.lastSave = "write_failed"]
    /\ UNCHANGED <<maxRetries, disk, tmp, stages>>
    /\ UNCHANGED <<ctx, tvars, cvars, lvars, nvars, avars, vvars, qvars>>

\* os.Rename succeeded: the commit point
SaveRename ==
    /\ pc = "save_rename"
    /\ tmp.kind # "absent"
    /\ disk' = tmp
    /\ tmp' = NoFile
    /\ SaveReturns(TRUE)
    /\ hist' = [hist EXCEPT !.lastSave = "ok", !.committed = JsonFile(mem)]
    /\ UNCHANGED <<maxRetries, stages>>
    /\ UNCHANGED <<ctx, tvars, cvars, lvars, nvars, avars, vvars, qvars>>

\* os.Rename failed: os.Remove(tempPath), Save returns an error
SaveRenameFail ==
    /\ pc = "save_rename"
    /\ tmp' = NoFile
    /\ SaveReturns(FALSE)
    /\ hist' = [hist EXCEPT !.lastSave = "rename_failed"]
    /\ UNCHANGED <<maxRetries, disk, stages>>
    /\ UNCHANGED <<ctx, tvars, cvars, lvars, nvars, avars, vvars, qvars>>

\* The caller cancels the context while a stage body runs (in one of the
\* first MaxCancelledRuns calls of Execute); Execute itself never looks at
\* the context (pipeline.go 52-140)
CancelExecute ==
    /\ pc = "body"
    /\ hist.runs <= MaxCancelledRuns
    /\ ~ctx.done
    /\ ctx' = [ctx EXCEPT !.done = TRUE]
    /\ UNCHANGED <<maxRetries, disk, tmp, mem, pc, stages, idx, saveCtx, ret, hist>>
    /\ UNCHANGED <<tvars, cvars, lvars, nvars, avars, vvars, qvars>>

\* The process dies inside Execute: memory is lost, the files stay
Crash ==
    /\ pc # "idle"
    /\ Return(Ret("crashed", IF pc = "body" THEN stages[idx] ELSE "", ""))
    /\ UNCHANGED <<maxRetries, disk, tmp, stages, idx, hist>>
    /\ UNCHANGED <<ctx, tvars, cvars, lvars, nvars, avars, vvars, qvars>>

PNext ==
    \/ \E id \in PipelineIds : ExecuteBegin(id)
    \/ LoopSkipCompleted
    \/ LoopExceeded
    \/ StageStart
    \/ StageBody
    \/ LoopEnd
    \/ SaveOpen
    \/ SaveOpenFail
    \/ SaveWrite
    \/ SaveWriteFail
    \/ SaveRename
    \/ SaveRenameFail
    \/ CancelExecute
    \/ Crash

-----------------------------------------------------------------------------
(* StdioTransport (manifest.go 241-463 of the source bundle): SendRequest   *)
(* of each calling goroutine, the child process writing lines to its        *)
(* stdout, and the background readLoop.                                     *)

\* Two goroutines share the transport
Callers == {"c1", "c2"}

\* A line of the child's stdout: id = 0 is a line that parses but carries no
\* id; kind = "bad" is a line that is not valid JSON
NoFrame == [id |-> 0, kind |-> "none"]

Frame(id, kind) == [id |-> id, kind |-> kind]

FrameIds == 0..MaxRequests

FrameKinds == {"result", "error"}

IdleCaller == [pc |-> "idle", id |-> 0, got |-> NoFrame, ret |-> "none"]

\* SendRequest 314-316: the id of the request and the next value of nextID
AllocateID(n) == [id |-> n, next |-> n + 1]

\* Mutant of RouteTarget: a frame with an unknown id goes to every waiter
RouteTarget_Broadcast(pending, frameId) ==
    IF frameId \in DOMAIN pending THEN {frameId} ELSE DOMAIN pending

\* readLoop 453: the channels the parsed frame is sent to
RouteTarget(pending, frameId) ==
    IF frameId \in DOMAIN pending THEN {frameId} ELSE {}

\* SendRequest 353-356: the value returned for a received response
ResponseValue(f) == IF f.kind = "error" THEN "error" ELSE "result"

\* Observation of readLoop's last routing: the frame, whether its id was
\* pending then, and the id of the channel it was put on (0: none)
Routed(f, to) ==
    [frame |-> f, wasPending |-> f.id \in DOMAIN pendingReqs, to |-> to]

NoRouted == [frame |-> NoFrame, wasPending |-> FALSE, to |-> 0]

TInit ==
    /\ nextID = 1
    /\ pendingReqs = <<>>
    /\ mu = "free"
    /\ callers = [c \in Callers |-> IdleCaller]
    /\ stdout = [lines |-> <<>>, emitted |-> 0, closed |-> FALSE]
    /\ reader = [pc |-> "running", frame |-> NoFrame]
    /\ thist = [issued |-> <<>>, routed |-> NoRouted]

\* SendRequest 314-319: take the id and register the channel, under the lock
SendRequestRegister(c) ==
    /\ callers[c].pc = "idle"
    /\ mu = "free"
    /\ nextID <= MaxRequests
    /\ LET a == AllocateID(nextID)
       IN /\ nextID' = a.next
          /\ pendingReqs' = [i \in DOMAIN pendingReqs \cup {a.id} |-> <<>>] @@ pendingReqs
          /\ callers' = [callers EXCEPT ![c] = [pc |-> "registered", id |-> a.id,
                                                got |-> NoFrame, ret |-> "none"]]
          /\ thist' = [thist EXCEPT !.issued = Append(@, a.id)]
    /\ UNCHANGED <<mu, stdout, reader>>
    /\ UNCHANGED <<pvars, cvars, lvars, nvars, avars, vvars, qvars>>

\* SendRequest 337-345: the request line is written to stdin (the child is
\* free to answer any id, so what it has read is not kept)
SendRequestWrite(c) ==
    /\ callers[c].pc = "registered"
    /\ callers' = [callers EXCEPT ![c].pc = "waiting"]
    /\ UNCHANGED <<nextID, pendingReqs, mu, stdout, reader, thist>>
    /\ UNCHANGED <<pvars, cvars, lvars, nvars, avars, vvars, qvars>>

\* SendRequest 343-345: the write fails
SendRequestWriteFail(c) ==
    /\ callers[c].pc = "registered"
    /\ callers' = [callers EXCEPT ![c].pc = "cleanup", ![c].ret = "write_failed"]
    /\ UNCHANGED <<nextID, pendingReqs, mu, stdout, reader, thist>>
    /\ UNCHANGED <<pvars, cvars, lvars, nvars, avars, vvars, qvars>>

\* SendRequest 352-356: a response is received from the caller's channel
SendRequestReceive(c) ==
    /\ callers[c].pc = "waiting"
    /\ callers[c].id \in DOMAIN pendingReqs
    /\ Len(pendingReqs[callers[c].id]) > 0
    /\ LET f == Head(pendingReqs[callers[c].id])
       IN callers' = [callers EXCEPT ![c].pc = "cleanup", ![c].got = f,
                                     ![c].ret = ResponseValue(f)]
    /\ pendingReqs' = [pendingReqs EXCEPT ![callers[c].id] = Tail(@)]
    /\ UNCHANGED <<nextID, mu, stdout, reader, thist>>
    /\ UNCHANGED <<pvars, cvars, lvars, nvars, avars, vvars, qvars>>

\* SendRequest 357-358: the timeout fires or the caller's context ends
SendRequestTimeout(c) ==
    /\ callers[c].pc = "waiting"
    /\ callers' = [callers EXCEPT ![c].pc = "cleanup", ![c].ret = "timeout"]
    /\ UNCHANGED <<nextID, pendingReqs, mu, stdout, reader, thist>>
    /\ UNCHANGED <<pvars, cvars, lvars, nvars, avars, vvars, qvars>>

\* SendRequest 359-360: readerDone is closed
SendRequestClosed(c) ==
    /\ callers[c].pc = "waiting"
    /\ reader.pc = "done"
    /\ callers' = [callers EXCEPT ![c].pc = "cleanup", ![c].ret = "closed"]
    /\ UNCHANGED <<nextID, pendingReqs, mu, stdout, reader, thist>>
    /\ UNCHANGED <<pvars, cvars, lvars, nvars, avars, vvars, qvars>>

\* SendRequest 322-326: the deferred removal of the slot, under the lock
SendRequestCleanup(c) ==
    /\ callers[c].pc = "cleanup"
    /\ mu = "free"
    /\ pendingReqs' = [i \in DOMAIN pendingReqs \ {callers[c].id} |-> pendingReqs[i]]
    /\ callers' = [callers EXCEPT ![c] = IdleCaller]
    /\ UNCHANGED <<nextID, mu, stdout, reader, thist>>
    /\ UNCHANGED <<pvars, cvars, lvars, nvars, avars, vvars, qvars>>

\* The child writes a line to its stdout
ServerEmit(id, kind) ==
    /\ ~stdout.closed
    /\ stdout.emitted < MaxFrames
    /\ stdout' = [stdout EXCEPT !.emitted = @ + 1,
                                !.lines = Append(@, Frame(id, kind))]
    /\ UNCHANGED <<nextID, pendingReqs, mu, callers, reader, thist>>
    /\ UNCHANGED <<pvars, cvars, lvars, nvars, avars, vvars, qvars>>

\* The child exits or closes its stdout
ServerExit ==
    /\ ~stdout.closed
    /\ stdout' = [stdout EXCEPT !.closed = TRUE]
    /\ UNCHANGED <<nextID, pendingReqs, mu, callers, reader, thist>>
    /\ UNCHANGED <<pvars, cvars, lvars, nvars, avars, vvars, qvars>>


\* readLoop 433-457: one line is scanned, parsed and routed.  The send on a
\* full channel blocks while the lock is held.
ReaderRoute ==
    /\ reader.pc = "running"
    /\ Len(stdout.lines) > 0
    /\ LET f == Head(stdout.lines)
           targets == RouteTarget(pendingReqs, f.id)
       IN /\ stdout' = [stdout EXCEPT !.lines = Tail(@)]
          /\ IF f.kind = "bad"
             THEN UNCHANGED <<pendingReqs, mu, reader, thist>>
             ELSE /\ mu = "free"
                  /\ IF targets = {}
                     THEN /\ thist' = [thist EXCEPT !.routed = Routed(f, 0)]
                          /\ UNCHANGED <<pendingReqs, mu, reader>>
                     ELSE \E t \in targets :
                            IF Len(pendingReqs[t]) = 0
                            THEN /\ pendingReqs' = [pendingReqs EXCEPT ![t] = <<f>>]
                                 /\ thist' = [thist EXCEPT !.routed = Routed(f, t)]
                                 /\ UNCHANGED <<mu, reader>>
                            ELSE /\ mu' = "reader"
                                 /\ reader' = [pc |-> "blocked", frame |-> [f EXCEPT !.id = t]]
                                 /\ UNCHANGED <<pendingReqs, thist>>
    /\ UNCHANGED <<nextID, callers>>
    /\ UNCHANGED <<pvars, cvars, lvars, nvars, avars, vvars, qvars>>

\* readLoop 454-456: the blocked send completes and the lock is released
ReaderUnblock ==
    /\ reader.pc = "blocked"
    /\ Len(pendingReqs[reader.frame.id]) = 0
    /\ pendingReqs' = [pendingReqs EXCEPT ![reader.frame.id] = <<reader.frame>>]
    /\ thist' = [thist EXCEPT !.routed = Routed(reader.frame, reader.frame.id)]
    /\ mu' = "free"
    /\ reader' = [pc |-> "running", frame |-> NoFrame]
    /\ UNCHANGED <<nextID, callers, stdout>>
    /\ UNCHANGED <<pvars, cvars, lvars, nvars, avars, vvars, qvars>>

\* readLoop 426, 433: the scanner reaches the end of stdout; readerDone is closed
ReaderExit ==
    /\ reader.pc = "running"
    /\ Len(stdout.lines) = 0
    /\ stdout.closed
    /\ reader' = [reader EXCEPT !.pc = "done"]
    /\ UNCHANGED <<nextID, pendingReqs, mu, callers, stdout, thist>>
    /\ UNCHANGED <<pvars, cvars, lvars, nvars, avars, vvars, qvars>>

TNext ==
    \/ \E c \in Callers : SendRequestRegister(c)
    \/ \E c \in Callers : SendRequestWrite(c)
    \/ \E c \in Callers : SendRequestWriteFail(c)
    \/ \E c \in Callers : SendRequestReceive(c)
    \/ \E c \in Callers : SendRequestTimeout(c)
    \/ \E c \in Callers : SendRequestClosed(c)
    \/ \E c \in Callers : SendRequestCleanup(c)
    \/ \E id \in FrameIds, kind \in FrameKinds : ServerEmit(id, kind)
    \/ ServerEmit(0, "bad")
    \/ ServerExit
    \/ ReaderRoute
    \/ ReaderUnblock
    \/ ReaderExit

-----------------------------------------------------------------------------
(* The MCP client (client.go 136-241) over a transport: the stdio           *)
(* transport, the Mark3Labs HTTP transport (mark3labs_transport.go) or the   *)
(* mock transport of the tests (mock_transport_test.go).  What the server    *)
(* answers is chosen freely.                                                 *)

TransportKinds == {"stdio", "http", "mock"}

\* What a SendRequest did: whether the request reached the server, what the
\* call returned (a result, a JSON-RPC error, another error), whether the
\* result bytes parse into the expected type
Sent(res, wellFormed) == [sent |-> TRUE, res |-> res, wellFormed |-> wellFormed]

NotSent == [sent |-> FALSE, res |-> "error", wellFormed |-> FALSE]

ServerAnswers ==
    { Sent("result", TRUE), Sent("result", FALSE),
      Sent("rpc_error", FALSE), Sent("error", FALSE) }

\* StdioTransport.SendRequest: the write may fail; then a response, a JSON-RPC
\* error, a timeout or the end of the transport
StdioSendRequest(method, initialized) ==
    {NotSent} \cup ServerAnswers

\* Mark3LabsTransport.SendRequest 64-164
Mark3LabsSendRequest(method, initialized) ==
    IF method = "initialize"
    THEN { Sent("result", TRUE), Sent("error", FALSE) }
    ELSE IF ~initialized
         THEN { NotSent }
         ELSE { Sent("result", TRUE), Sent("error", FALSE) }

\* MockTransport.SendRequest 57-89: the request is recorded, then RequestErr
\* or the configured response (default {}) is returned
MockSendRequest(method, initialized) ==
    ServerAnswers

TransportSendRequest(kind, method, initialized) ==
    CASE kind = "stdio" -> StdioSendRequest(method, initialized)
      [] kind = "http"  -> Mark3LabsSendRequest(method, initialized)
      [] kind = "mock"  -> MockSendRequest(method, initialized)

\* SendNotification: [sent, ok].  The HTTP transport sends nothing and returns
\* nil; the mock records and may return NotificationErr; stdio may fail to write
TransportSendNotification(kind) ==
    CASE kind = "stdio" -> { [sent |-> TRUE, ok |-> TRUE], [sent |-> FALSE, ok |-> FALSE] }
      [] kind = "http"  -> { [sent |-> FALSE, ok |-> TRUE] }
      [] kind = "mock"  -> { [sent |-> TRUE, ok |-> TRUE], [sent |-> TRUE, ok |-> FALSE] }

\* A successful Initialize has returned
Handshook == clast.handshook \/ (clast.op = "initialize" /\ clast.ret = "ok")

NoCall == [op |-> "none", ret |-> "none", handshook |-> FALSE, sentBefore |-> 0, calls |-> 0]

\* A Client call op returned ret; handshook: a successful Initialize had
\* returned before the call; sentBefore: requests sent before the call
CallRecord(op, r) ==
    [op |-> op, ret |-> r, handshook |-> Handshook, sentBefore |-> Len(csent),
     calls |-> clast.calls + 1]

\* Go error values as the chain errors.Unwrap walks, outermost first.  A layer
\* is a JSONRPCError (code, message), an error made by fmt.Errorf (its text, as
\* the list of its parts), or another error of the transport
NilErr == <<>>

JSONRPCError(code, message) ==
    <<[kind |-> "JSONRPCError", code |-> code, text |-> <<message>>]>>

OtherErr == <<[kind |-> "other", code |-> 0, text |-> <<"transport">>]>>

\* fmt.Errorf(prefix + ": %s", text): the text is copied, nothing is wrapped
Errorf(prefix, text) == <<[kind |-> "fmt", code |-> 0, text |-> <<prefix, text>>]>>

\* fmt.Errorf with %v instead of %w: the text of e is copied, e is not wrapped
Wrap_Opaque(prefix, e) ==
    <<[kind |-> "fmt", code |-> 0, text |-> <<prefix>> \o e[1].text]>>

\* fmt.Errorf(prefix + ": %w", e)
Wrap(prefix, e) ==
    <<[kind |-> "fmt", code |-> 0, text |-> <<prefix>> \o e[1].text]>> \o e

\* errors.As(err, &rpcErr) with rpcErr of type *JSONRPCError: the first layer
\* of that type in the chain, or <<>>
ErrorsAs(err) ==
    LET at == { i \in 1..Len(err) : err[i].kind = "JSONRPCError" }
    IN  IF at = {} THEN <<>>
        ELSE <<err[CHOOSE i \in at : \A j \in at : i <= j]>>

\* The JSON-RPC errors a server can answer (client.go 64-68)
RpcCodes == {-32000, -32601, -32602, -32603}

RpcMessages == {"m1", "m2"}

RpcErrors == { JSONRPCError(c, m) : c \in RpcCodes, m \in RpcMessages }

\* types.ToolCallResult: the content blocks (their texts) and isError
ContentTexts == {"t1", "t2"}

Contents == UNION { [1..n -> ContentTexts] : n \in 0..MaxBlocks }

ToolCallResult(content, isError) == [present |-> TRUE, content |-> content, isError |-> isError]

ToolCallResults == { ToolCallResult(c, e) : c \in Contents, e \in BOOLEAN }

NoToolResult == [present |-> FALSE, content |-> <<>>, isError |-> FALSE]

\* What a Client call returned.  ret: "ok" (nil error), "error", or "panic"
\* (the call did not return); received: what the transport returned to it
Returns(r, result, err, o, rpc, recv) ==
    [ret |-> r, result |-> result, err |-> err,
     transport |-> o.res, rpc |-> rpc, received |-> recv]

NoOut ==
    [ret |-> "none", result |-> NoToolResult, err |-> NilErr,
     transport |-> "none", rpc |-> NilErr, received |-> NoToolResult]

\* Client.CallTool (client.go 209-231) on the outcome o of SendRequest; rpc is
\* the JSON-RPC error and r the parsed result the transport returned
CallTool(o, rpc, r) ==
    IF o.res = "rpc_error"
    THEN Returns("error", NoToolResult, Wrap("tools/call request failed", rpc), o, rpc, NoToolResult)
    ELSE IF o.res = "error"
    THEN Returns("error", NoToolResult, Wrap("tools/call request failed", OtherErr), o, NilErr, NoToolResult)
    ELSE IF ~o.wellFormed
    THEN Returns("error", NoToolResult, Wrap("failed to parse tools/call response", OtherErr), o, NilErr, NoToolResult)
    ELSE IF r.isError
    THEN IF Len(r.content) = 0
         THEN Returns("panic", NoToolResult, NilErr, o, NilErr, r)   \* Content[0]: index out of range
         ELSE Returns("error", r, Errorf("tool execution failed", r.content[1]), o, NilErr, r)
    ELSE Returns("ok", r, NilErr, o, NilErr, r)

NoHandshake ==
    [req |-> NotSent, note |-> [sent |-> FALSE, ok |-> FALSE], notesBefore |-> 0]

\* Mutant of InitializeSteps: the notification goes out before the answer to
\* the initialize request is looked at
InitializeSteps_NotifyFirst(o, n) ==
    IF o.res = "result" /\ o.wellFormed
    THEN [stored |-> TRUE, notified |-> n.sent, ret |-> IF n.ok THEN "ok" ELSE "error"]
    ELSE [stored |-> FALSE, notified |-> n.sent, ret |-> "error"]

\* Initialize 173-190 on the outcome o of SendRequest and n of
\* SendNotification: whether the server info is stored, whether the
\* notification goes out, what is returned
InitializeSteps(o, n) ==
    IF o.res = "result" /\ o.wellFormed
    THEN [stored |-> TRUE, notified |-> n.sent, ret |-> IF n.ok THEN "ok" ELSE "error"]
    ELSE [stored |-> FALSE, notified |-> FALSE, ret |-> "error"]

CInit ==
    /\ ckind \in TransportKinds
    /\ cinit = FALSE
    /\ cserver = FALSE
    /\ csent = <<>>
    /\ cnotes = <<>>
    /\ clast = NoCall
    /\ cout = NoOut
    /\ chand = NoHandshake

CIdle ==
    /\ ckind = "mock"
    /\ cinit = FALSE
    /\ cserver = FALSE
    /\ csent = <<>>
    /\ cnotes = <<>>
    /\ clast = NoCall
    /\ cout = NoOut
    /\ chand = NoHandshake

\* Client.Initialize (client.go 157-191)
ClientInitialize ==
    /\ clast.calls < MaxCalls
    /\ \E o \in TransportSendRequest(ckind, "initialize", cinit),
          n \in TransportSendNotification(ckind) :
         LET st == InitializeSteps(o, n)
         IN  /\ csent' = IF o.sent THEN Append(csent, "initialize") ELSE csent
             /\ cinit' = (cinit \/ (ckind = "http" /\ o.res = "result"))
             /\ cserver' = (cserver \/ st.stored)
             /\ cnotes' = IF st.notified THEN Append(cnotes, "notifications/initialized")
                                         ELSE cnotes
             /\ clast' = CallRecord("initialize", st.ret)
             /\ chand' = [req |-> o, note |-> n, notesBefore |-> Len(cnotes)]
    /\ cout' = NoOut
    /\ UNCHANGED ckind
    /\ UNCHANGED <<pvars, tvars, lvars, nvars, avars, vvars, qvars>>

\* Client.ListTools (client.go 194-206)
ClientListTools ==
    /\ clast.calls < MaxCalls
    /\ \E o \in TransportSendRequest(ckind, "tools/list", cinit) :
         /\ csent' = IF o.sent THEN Append(csent, "tools/list") ELSE csent
         /\ clast' = CallRecord("tools/list",
                                IF o.res = "result" /\ o.wellFormed THEN "ok" ELSE "error")
    /\ cout' = NoOut
    /\ chand' = NoHandshake
    /\ UNCHANGED <<ckind, cinit, cserver, cnotes>>
    /\ UNCHANGED <<pvars, tvars, lvars, nvars, avars, vvars, qvars>>

\* Client.CallTool (client.go 209-231): a result with isError set is returned
\* together with an error
ClientCallTool ==
    /\ clast.calls < MaxCalls
    /\ \E o \in TransportSendRequest(ckind, "tools/call", cinit),
          rpc \in RpcErrors, r \in ToolCallResults :
         /\ csent' = IF o.sent THEN Append(csent, "tools/call") ELSE csent
         /\ cout' = CallTool(o, rpc, r)
         /\ clast' = CallRecord("tools/call", CallTool(o, rpc, r).ret)
    /\ chand' = NoHandshake
    /\ UNCHANGED <<ckind, cinit, cserver, cnotes>>
    /\ UNCHANGED <<pvars, tvars, lvars, nvars, avars, vvars, qvars>>

CNext ==
    \/ ClientInitialize
    \/ ClientListTools
    \/ ClientCallTool

-----------------------------------------------------------------------------
(* Life cycle of a StdioTransport (manifest.go 263-463 of the source        *)
(* bundle): NewStdioTransport, Start, SendRequest, Close, seen from one      *)
(* caller that makes its calls one after the other, with the child process   *)
(* and the readLoop goroutines running beside it.  SendRequest is taken as   *)
(* one step here; its interleavings are those of the transport above.        *)

\* A call op returned ret; afterClose: a Close had returned before the call
LCall(op, r) == [op |-> op, ret |-> r, afterClose |-> lclosed]

\* NewStdioTransport 263-271: readerDone is made once, here
LInit ==
    /\ lproc = "none"
    /\ lstdin = "nil"
    /\ lreader = "none"
    /\ lorphans = 0
    /\ lreaderDone = "open"
    /\ lpc = "idle"
    /\ lclosed = FALSE
    /\ lstarts = 0
    /\ lpanic = FALSE
    /\ llast = [op |-> "none", ret |-> "none", afterClose |-> FALSE]

\* close(t.readerDone) of a returning readLoop (426): closing a closed
\* channel panics
CloseReaderDone ==
    IF lreaderDone = "open"
    THEN lreaderDone' = "closed" /\ UNCHANGED lpanic
    ELSE lpanic' = TRUE /\ UNCHANGED lreaderDone

\* Start 274-310 succeeds: a new process, new pipes, a new readLoop.  Nothing
\* in Start looks at an earlier Start or Close
StartOk ==
    /\ lpc = "idle" /\ ~lpanic
    /\ lstarts < MaxStarts
    /\ lproc' = "running"
    /\ lstdin' = "open"
    /\ lreader' = "running"
    /\ lorphans' = IF lreader = "running" THEN lorphans + 1 ELSE lorphans
    /\ lstarts' = lstarts + 1
    /\ llast' = LCall("start", "ok")
    /\ UNCHANGED <<lreaderDone, lpc, lclosed, lpanic>>
    /\ UNCHANGED <<pvars, tvars, cvars, nvars, avars, vvars, qvars>>

\* Start 274-303 fails (empty command, a pipe or the process cannot be made):
\* t.cmd is a command without process, no readLoop is started
StartFail ==
    /\ lpc = "idle" /\ ~lpanic
    /\ lstarts < MaxStarts
    /\ lproc' = "none"
    /\ lstdin' = IF lstdin = "nil" THEN "nil" ELSE "closed"
    /\ lreader' = "none"
    /\ lorphans' = IF lreader = "running" THEN lorphans + 1 ELSE lorphans
    /\ lstarts' = lstarts + 1
    /\ llast' = LCall("start", "error")
    /\ UNCHANGED <<lreaderDone, lpc, lclosed, lpanic>>
    /\ UNCHANGED <<pvars, tvars, cvars, nvars, avars, vvars, qvars>>

\* What SendRequest 313-362 can return in the current state
SendRequestOutcomes ==
    IF lstdin = "nil" THEN {"panic"}                       \* t.stdin.Write on a nil writer
    ELSE IF lstdin = "closed" \/ lproc # "running" THEN {"write_failed"}
    ELSE {"timeout"}
         \cup (IF lreader = "running" THEN {"result", "rpc_error"} ELSE {})
         \cup (IF lreaderDone = "closed" THEN {"closed"} ELSE {})

LSendRequest ==
    /\ lpc = "idle" /\ ~lpanic
    /\ \E r \in SendRequestOutcomes :
         /\ llast' = LCall("send", r)
         /\ lpanic' = (r = "panic")
    /\ UNCHANGED <<lproc, lstdin, lreader, lorphans, lreaderDone, lpc, lclosed, lstarts>>
    /\ UNCHANGED <<pvars, tvars, cvars, nvars, avars, vvars, qvars>>

\* Close 389-397: the reader context is cancelled and stdin is closed
CloseBegin ==
    /\ lpc = "idle" /\ ~lpanic
    /\ lstdin' = IF lstdin = "nil" THEN "nil" ELSE "closed"
    /\ lpc' = IF lproc = "none" THEN "wait_reader" ELSE "wait_process"
    /\ UNCHANGED <<lproc, lreader, lorphans, lreaderDone, lclosed, lstarts, lpanic, llast>>
    /\ UNCHANGED <<pvars, tvars, cvars, nvars, avars, vvars, qvars>>

\* Close 406-408: cmd.Wait has returned
CloseProcessExited ==
    /\ lpc = "wait_process" /\ ~lpanic
    /\ lproc \in {"exited", "killed"}
    /\ lpc' = "wait_reader"
    /\ UNCHANGED <<lproc, lstdin, lreader, lorphans, lreaderDone, lclosed, lstarts, lpanic, llast>>
    /\ UNCHANGED <<pvars, tvars, cvars, nvars, avars, vvars, qvars>>

\* Close 409-412: five seconds have passed, the process is killed
CloseKill ==
    /\ lpc = "wait_process" /\ ~lpanic
    /\ lproc = "running"
    /\ lproc' = "killed"
    /\ lpc' = "wait_reader"
    /\ UNCHANGED <<lstdin, lreader, lorphans, lreaderDone, lclosed, lstarts, lpanic, llast>>
    /\ UNCHANGED <<pvars, tvars, cvars, nvars, avars, vvars, qvars>>

\* Close 415-421: readerDone is closed, or one second has passed; Close
\* returns nil
CloseReturn ==
    /\ lpc = "wait_reader" /\ ~lpanic
    /\ lpc' = "idle"
    /\ lclosed' = TRUE
    /\ llast' = LCall("close", "ok")
    /\ UNCHANGED <<lproc, lstdin, lreader, lorphans, lreaderDone, lstarts, lpanic>>
    /\ UNCHANGED <<pvars, tvars, cvars, nvars, avars, vvars, qvars>>

\* The child process exits, by itself or because its stdin was closed
ProcessExit ==
    /\ ~lpanic
    /\ lproc = "running"
    /\ lproc' = "exited"
    /\ UNCHANGED <<lstdin, lreader, lorphans, lreaderDone, lpc, lclosed, lstarts, lpanic, llast>>
    /\ UNCHANGED <<pvars, tvars, cvars, nvars, avars, vvars, qvars>>

\* readLoop 425-463 of the last Start returns: its stdout has ended
LReaderExit ==
    /\ ~lpanic
    /\ lreader = "running"
    /\ lproc \in {"exited", "killed"}
    /\ lreader' = "done"
    /\ CloseReaderDone
    /\ UNCHANGED <<lproc, lstdin, lorphans, lpc, lclosed, lstarts, llast>>
    /\ UNCHANGED <<pvars, tvars, cvars, nvars, avars, vvars, qvars>>

\* A readLoop of an earlier Start returns
OrphanReaderExit ==
    /\ ~lpanic
    /\ lorphans > 0
    /\ lorphans' = lorphans - 1
    /\ CloseReaderDone
    /\ UNCHANGED <<lproc, lstdin, lreader, lpc, lclosed, lstarts, llast>>
    /\ UNCHANGED <<pvars, tvars, cvars, nvars, avars, vvars, qvars>>

LNext ==
    \/ StartOk
    \/ StartFail
    \/ LSendRequest
    \/ CloseBegin
    \/ CloseProcessExited
    \/ CloseKill
    \/ CloseReturn
    \/ ProcessExit
    \/ LReaderExit
    \/ OrphanReaderExit

-----------------------------------------------------------------------------
(* ToolAdapter (internal/llm, tool adapter): qualified tool names.  A Go      *)
(* string is the sequence of its characters.                                 *)

\* Characters of server and tool names: a letter, a digit, the underscore
Alphabet == {"a", "7", "_"}

Names == UNION { [1..n -> Alphabet] : n \in 1..MaxNameLen }

Separator == <<"_", "_">>

\* Mutant of convertMCPToolToUnified: the tool keeps its bare name
convertMCPToolToUnified_Bare(serverName, tool) ==
    [name |-> tool, origin |-> <<serverName, tool>>]

\* convertMCPToolToUnified 59-71: fmt.Sprintf("%s__%s", serverName, tool.Name).
\* origin is not a field of UnifiedTool: it remembers what the tool was built
\* from (the description and the schema are left out)
convertMCPToolToUnified(serverName, tool) ==
    [name |-> serverName \o Separator \o tool, origin |-> <<serverName, tool>>]

NoUnifiedTool == [name |-> <<>>, origin |-> <<>>]

Parsed(server, tool) == [done |-> TRUE, ok |-> TRUE, server |-> server, tool |-> tool]

ParseError == [done |-> TRUE, ok |-> FALSE, server |-> <<>>, tool |-> <<>>]

NotParsed == [done |-> FALSE, ok |-> FALSE, server |-> <<>>, tool |-> <<>>]

\* The indexes (from 1) at which toolName has two underscores in a row
SeparatorsOf(toolName) ==
    { i \in 1..(Len(toolName) - 1) : toolName[i] = "_" /\ toolName[i + 1] = "_" }

\* Mutant of parseToolName: the name is split at the last "__"
parseToolName_Last(toolName) ==
    LET at == SeparatorsOf(toolName)
    IN  IF at = {} THEN ParseError
        ELSE LET i == CHOOSE i \in at : \A j \in at : j <= i
             IN  Parsed(SubSeq(toolName, 1, i - 1), SubSeq(toolName, i + 2, Len(toolName)))

\* parseToolName 121-129: the loop returns at the first i with
\* toolName[i] = toolName[i+1] = '_'
parseToolName(toolName) ==
    LET at == SeparatorsOf(toolName)
    IN  IF at = {} THEN ParseError
        ELSE LET i == CHOOSE i \in at : \A j \in at : i <= j
             IN  Parsed(SubSeq(toolName, 1, i - 1), SubSeq(toolName, i + 2, Len(toolName)))

NInit ==
    /\ nserver \in Names
    /\ ntool \in Names
    /\ nqualified = NoUnifiedTool
    /\ nparsed = NotParsed

NIdle ==
    /\ nserver = <<"a">>
    /\ ntool = <<"a">>
    /\ nqualified = NoUnifiedTool
    /\ nparsed = NotParsed

\* convertMCPToolToUnified is applied to the two names
ConvertName ==
    /\ nqualified = NoUnifiedTool
    /\ nqualified' = convertMCPToolToUnified(nserver, ntool)
    /\ UNCHANGED <<nserver, ntool, nparsed>>
    /\ UNCHANGED <<pvars, tvars, cvars, lvars, avars, vvars, qvars>>

\* parseToolName is applied to the name that was built
ParseName ==
    /\ nqualified # NoUnifiedTool
    /\ ~nparsed.done
    /\ nparsed' = parseToolName(nqualified.name)
    /\ UNCHANGED <<nserver, ntool, nqualified>>
    /\ UNCHANGED <<pvars, tvars, cvars, lvars, avars, vvars, qvars>>

NNext ==
    \/ ConvertName
    \/ ParseName

-----------------------------------------------------------------------------
(* ToolAdapter: discovery and routing of tool calls *)

\* The servers an adapter can be built over, and the tool lists a server
\* can answer to tools/list (distinct names)
ServerNames == { <<"a">>, <<"a", "_">>, <<"7">> }

ToolLists == { <<>>, << <<"a">> >>, << <<"a">>, <<"_", "a">> >> }

\* The orders in which Go can range over the map of clients
Orders(servers) ==
    { o \in [1..Cardinality(servers) -> servers] :
        \A i, j \in 1..Cardinality(servers) : i # j => o[i] # o[j] }

\* Mutant of DiscoverTools: discovery stops at the first server that fails
DiscoverTools_StopAtFailure(clients, order, failing) ==
    LET F[i \in 0..Len(order)] ==
          IF i = 0 THEN <<>>
          ELSE IF \E j \in 1..i : order[j] \in failing THEN F[i - 1]
          ELSE F[i - 1] \o [k \in 1..Len(clients[order[i]]) |->
                               convertMCPToolToUnified(order[i], clients[order[i]][k])]
    IN  F[Len(order)]

\* DiscoverAndConvertTools 31-52: the loop over the clients in the order the
\* map gives them; a server whose ListTools fails is skipped
DiscoverTools(clients, order, failing) ==
    LET F[i \in 0..Len(order)] ==
          IF i = 0 THEN <<>>
          ELSE IF order[i] \in failing THEN F[i - 1]
          ELSE F[i - 1] \o [k \in 1..Len(clients[order[i]]) |->
                               convertMCPToolToUnified(order[i], clients[order[i]][k])]
    IN  F[Len(order)]

\* toolsCache: a nil slice, or the slice built by a discovery.  A discovery
\* that appends nothing leaves the slice nil
NilCache == [set |-> FALSE, tools |-> <<>>]

Cache(tools) == [set |-> Len(tools) > 0, tools |-> tools]

\* The qualified names given to ExecuteToolCall
QualifiedInputs ==
    { convertMCPToolToUnified(sv, t).name : sv \in ServerNames, t \in {<<"a">>, <<"_", "a">>} }
        \cup { <<"a">> }

\* The arguments given to ExecuteToolCall
ToolArguments == {"x", "y"}

\* What the client's CallTool gives back to ExecuteToolCall: an error (for
\* client.Client this includes a result with IsError set and some content),
\* a result with IsError set and a nil error (an MCPClient that leaves the
\* flag to its caller), a result without content, a result with text; or it
\* does not come back: client.Client aborts on a result with IsError set and
\* no content (client.go 227)
CallToolOutcomes == {"error", "is_error", "empty", "text", "panic"}

\* ExecuteToolCall 86-117: what is returned for an outcome of CallTool
\* ("panic": nothing is returned, the abort goes through ExecuteToolCall)
ExecuteReturn(outcome) ==
    CASE outcome = "error"    -> "call_failed"
      [] outcome = "is_error" -> "tool_error"
      [] outcome = "empty"    -> "no_content"
      [] outcome = "text"     -> "text"
      [] outcome = "panic"    -> "panic"

NoAdapterCall ==
    [op |-> "none", ret |-> "none", called |-> FALSE, again |-> FALSE,
     q |-> <<>>, server |-> <<>>, tool |-> <<>>,
     args |-> "", passed |-> "", outcome |-> "",
     fresh |-> FALSE, failing |-> {}, listed |-> {}, returned |-> <<>>]

NoDiscovery == [done |-> FALSE, tools |-> <<>>]

AInit ==
    /\ \E servers \in (SUBSET ServerNames) \ {{}} : aclients \in [servers -> ToolLists]
    /\ toolsCache = NilCache
    /\ alast = NoAdapterCall
    /\ afirst = NoDiscovery

AIdle ==
    /\ aclients = [sv \in {<<"a">>} |-> <<>>]
    /\ toolsCache = NilCache
    /\ alast = NoAdapterCall
    /\ afirst = NoDiscovery

\* DiscoverAndConvertTools 26-56.  failing: the servers whose ListTools fails
\* during this call; listed: the clients whose ListTools was invoked
DiscoverAndConvertTools ==
    /\ IF toolsCache.set
       THEN /\ alast' = [NoAdapterCall EXCEPT !.op = "discover", !.ret = "ok",
                                              !.again = afirst.done,
                                              !.returned = toolsCache.tools]
            /\ afirst' = IF afirst.done THEN afirst
                                        ELSE [done |-> TRUE, tools |-> toolsCache.tools]
            /\ UNCHANGED toolsCache
       ELSE \E order \in Orders(DOMAIN aclients), failing \in SUBSET (DOMAIN aclients) :
              LET tools == DiscoverTools(aclients, order, failing)
              IN  /\ toolsCache' = Cache(tools)
                  /\ afirst' = IF afirst.done THEN afirst
                                              ELSE [done |-> TRUE, tools |-> tools]
                  /\ alast' = [NoAdapterCall EXCEPT !.op = "discover", !.ret = "ok",
                                                    !.again = afirst.done,
                                                    !.fresh = TRUE, !.failing = failing,
                                                    !.listed = DOMAIN aclients,
                                                    !.returned = tools]
    /\ UNCHANGED aclients
    /\ UNCHANGED <<pvars, tvars, cvars, lvars, nvars, vvars, qvars>>

\* ExecuteToolCall 74-118: the name is parsed, the client is looked up, its
\* CallTool is invoked with the bare name (called, server, tool: that
\* invocation) and its outcome is turned into the text or an error
ExecuteToolCall(q, args) ==
    /\ LET n == parseToolName(q)
       IN  IF ~n.ok
           THEN alast' = [NoAdapterCall EXCEPT !.op = "execute", !.q = q, !.args = args,
                                               !.ret = "invalid_name"]
           ELSE IF n.server \notin DOMAIN aclients
           THEN alast' = [NoAdapterCall EXCEPT !.op = "execute", !.q = q, !.args = args,
                                               !.ret = "server_not_found"]
           ELSE \E outcome \in CallToolOutcomes :
                  alast' = [NoAdapterCall EXCEPT !.op = "execute", !.q = q, !.args = args,
                                                 !.called = TRUE, !.passed = args,
                                                 !.outcome = outcome,
                                                 !.ret = ExecuteReturn(outcome),
                                                 !.server = n.server, !.tool = n.tool]
    /\ UNCHANGED <<aclients, toolsCache, afirst>>
    /\ UNCHANGED <<pvars, tvars, cvars, lvars, nvars, vvars, qvars>>

ANext ==
    \/ DiscoverAndConvertTools
    \/ \E q \in QualifiedInputs, args \in ToolArguments : ExecuteToolCall(q, args)

-----------------------------------------------------------------------------
(* The conversation loop of a provider: claude.Conversation.Execute          *)
(* (and the same loop in llm.ConversationManager.Execute),                   *)
(* openrouter.Conversation.Execute, gemini.Conversation.Execute.  The model  *)
(* answers freely.  Tokens are small numbers; MaxCostUSD is given as the     *)
(* number of tokens whose estimated cost equals it.                          *)

Providers == {"claude", "openrouter", "gemini"}

\* Termination reasons of a model response, in the terms of the Claude API.
\* For OpenRouter: stop is end_turn or stop_sequence, length is max_tokens,
\* tool_calls is tool_use, anything else is other
StopReasons == {"tool_use", "end_turn", "max_tokens", "stop_sequence", "other"}

Configs ==
    [maxRounds : 0..MaxRoundsCfg, maxTokens : {1, 3}, maxCostTokens : {2, 9}]

\* A model response: its termination reason, the number of tool calls in it
\* (their ids are 1..calls, in the order of the content blocks), its text
\* ("" when it has none) and the tokens it reports
Responses ==
    [stop : StopReasons, calls : 0..MaxToolCalls, text : {"", "t"}, usage : {1, 2}]

NoResponse == [stop |-> "none", calls |-> 0, text |-> "", usage |-> 0]

ExecuteResult(kind, why, text) == [kind |-> kind, why |-> why, text |-> text]

NoExecuteResult == ExecuteResult("none", "", "")

\* gemini Execute 215-218: MaxRounds = 0 means 20
EffectiveMaxRounds(kind, cfg) ==
    IF kind = "gemini" /\ cfg.maxRounds = 0 THEN 20 ELSE cfg.maxRounds

\* The checks at the top of a round (claude 81-89, openrouter 95-103,
\* gemini 224-232): "" when the round may go on
RoundCheck(kind, cfg, round, expired, tokens) ==
    IF round >= EffectiveMaxRounds(kind, cfg) THEN "rounds"
    ELSE IF kind = "gemini" /\ round >= 1 THEN "rounds"     \* the break at 244
    ELSE IF expired THEN "timeout"
    ELSE IF tokens > cfg.maxTokens THEN "tokens"
    ELSE ""

\* The check after a model call (claude 110-114, gemini 260-264; openrouter
\* has none): "" when the response is to be handled
AfterCallCheck(kind, cfg, tokens) ==
    IF kind # "openrouter" /\ tokens > cfg.maxCostTokens THEN "cost" ELSE ""

\* Mutant of extractFinalResult: no placeholder for a response without text
extractFinalResult_Raw(resp) == resp.text

\* extractFinalResult (claude 192-203): the text of the response, or a
\* placeholder when it has none
extractFinalResult(resp) ==
    IF resp.text = "" THEN "Task completed (no text output)" ELSE resp.text

ToTools == [next |-> "tools", ret |-> NoExecuteResult]

ToNextRound == [next |-> "continue", ret |-> NoExecuteResult]

Finish(kind, why, text) == [next |-> "return", ret |-> ExecuteResult(kind, why, text)]

\* claude Execute 121-145: the switch on the stop reason
ClaudeDispatch(resp) ==
    CASE resp.stop = "tool_use" -> {ToTools}
      [] resp.stop \in {"end_turn", "stop_sequence"} ->
            {Finish("ok", "", extractFinalResult(resp))}
      [] resp.stop = "max_tokens" -> {Finish("fail", "truncated", "")}
      [] OTHER -> {Finish("fail", "unexpected", "")}

\* openrouter Execute 129-157: tool calls first, then the finish reason
OpenRouterDispatch(resp) ==
    LET default == IF resp.text # "" THEN Finish("ok", "", resp.text) ELSE ToNextRound
    IN  IF resp.calls > 0 THEN {ToTools}
        ELSE CASE resp.stop \in {"end_turn", "stop_sequence"} -> {Finish("ok", "", resp.text)}
               [] resp.stop = "max_tokens" -> {Finish("fail", "truncated", "")}
               [] resp.stop = "other" -> {Finish("fail", "content_filter", ""), default}
               [] OTHER -> {default}

\* gemini Execute 273-309: function calls first, then the text
GeminiDispatch(resp) ==
    IF resp.calls > 0 THEN {ToTools}
    ELSE IF resp.text # "" THEN {Finish("ok", "", resp.text)}
    ELSE {Finish("fail", "no_text", "")}

Dispatch(kind, resp) ==
    CASE kind = "claude"     -> ClaudeDispatch(resp)
      [] kind = "openrouter" -> OpenRouterDispatch(resp)
      [] kind = "gemini"     -> GeminiDispatch(resp)

\* A message appended to the conversation: its role and the ids of the tool
\* calls whose results it carries, in order
ResultMessage(role, ids) == [role |-> role, ids |-> ids]

\* Mutant of ToolResultMessages: the result of the last call is left out
ToolResultMessages_DropLast(kind, calls) ==
    IF calls = 0 THEN <<>>
    ELSE IF kind = "openrouter"
    THEN [i \in 1..(calls - 1) |-> ResultMessage("tool", <<i>>)]
    ELSE <<ResultMessage("user", [i \in 1..(calls - 1) |-> i])>>

\* What is appended after the tool calls 1..calls of a turn have run:
\* claude handleToolUse 183-186 one user message with all result blocks;
\* openrouter handleToolCalls 189-198 one tool message per call;
\* gemini handleToolCalls 349-355 one message with all function responses
ToolResultMessages(kind, calls) ==
    IF calls = 0 THEN <<>>
    ELSE IF kind = "openrouter"
    THEN [i \in 1..calls |-> ResultMessage("tool", <<i>>)]
    ELSE <<ResultMessage("user", [i \in 1..calls |-> i])>>

VInit ==
    /\ vkind \in Providers
    /\ vcfg \in Configs
    /\ vpc = "idle"
    /\ vround = 0
    /\ vtokens = 0
    /\ vresp = NoResponse
    /\ vk = 0
    /\ vappended = <<>>
    /\ vclock = [expired |-> FALSE, cancelled |-> FALSE]
    /\ vret = NoExecuteResult
    /\ vcalls = 0

VIdle ==
    /\ vkind = "claude"
    /\ vcfg = [maxRounds |-> 0, maxTokens |-> 1, maxCostTokens |-> 2]
    /\ vpc = "idle"
    /\ vround = 0
    /\ vtokens = 0
    /\ vresp = NoResponse
    /\ vk = 0
    /\ vappended = <<>>
    /\ vclock = [expired |-> FALSE, cancelled |-> FALSE]
    /\ vret = NoExecuteResult
    /\ vcalls = 0

others == <<pvars, tvars, cvars, lvars, nvars, avars, qvars>>

\* Execute up to the loop (claude 41-75): the image is read, the tools are
\* discovered, the first message is built
ExecuteSetup ==
    /\ vpc = "idle"
    /\ \/ /\ vpc' = "top"
          /\ UNCHANGED vret
       \/ /\ vpc' = "done"
          /\ vret' = ExecuteResult("fail", "setup", "")
    /\ UNCHANGED <<vkind, vcfg, vround, vtokens, vresp, vk, vappended, vclock, vcalls>>
    /\ UNCHANGED others

\* The top of a round: loop condition, timeout, token limit
RoundTop ==
    /\ vpc = "top"
    /\ LET why == RoundCheck(vkind, vcfg, vround, vclock.expired, vtokens)
       IN  IF why = ""
           THEN vpc' = "model" /\ UNCHANGED vret
           ELSE vpc' = "done" /\ vret' = ExecuteResult("fail", why, "")
    /\ UNCHANGED <<vkind, vcfg, vround, vtokens, vresp, vk, vappended, vclock, vcalls>>
    /\ UNCHANGED others

\* The model call fails (a cancelled context makes it fail)
ModelCallFails ==
    /\ vpc = "model"
    /\ vcalls < MaxModelCalls
    /\ vcalls' = vcalls + 1
    /\ vpc' = "done"
    /\ vret' = ExecuteResult("fail", "api", "")
    /\ UNCHANGED <<vkind, vcfg, vround, vtokens, vresp, vk, vappended, vclock>>
    /\ UNCHANGED others

\* The model call returns r (claude 92-118, openrouter 106-127, gemini
\* 238-270): the tokens are added, the cost is checked, the assistant turn
\* is appended.  empty: the answer has no choice / no candidate
ModelCall(r, empty) ==
    /\ vpc = "model"
    /\ vcalls < MaxModelCalls
    /\ ~vclock.cancelled
    /\ empty => vkind # "claude"
    /\ vcalls' = vcalls + 1
    /\ vtokens' = vtokens + r.usage
    /\ vresp' = r
    /\ vk' = 0
    /\ vappended' = <<>>
    /\ LET why == AfterCallCheck(vkind, vcfg, vtokens + r.usage)
       IN  IF vkind = "openrouter" /\ empty
           THEN vpc' = "done" /\ vret' = ExecuteResult("fail", "no_choices", "")
           ELSE IF why # ""
           THEN vpc' = "done" /\ vret' = ExecuteResult("fail", why, "")
           ELSE IF empty
           THEN vpc' = "done" /\ vret' = ExecuteResult("fail", "no_choices", "")
           ELSE vpc' = "dispatch" /\ UNCHANGED vret
    /\ UNCHANGED <<vkind, vcfg, vround, vclock>>
    /\ UNCHANGED others

\* The response is handled
HandleResponse ==
    /\ vpc = "dispatch"
    /\ \E o \in Dispatch(vkind, vresp) :
         CASE o.next = "tools" ->
                /\ vpc' = "tools"
                /\ vk' = 1
                /\ UNCHANGED <<vround, vret>>
           [] o.next = "return" ->
                /\ vpc' = "done"
                /\ vret' = o.ret
                /\ UNCHANGED <<vround, vk>>
           [] o.next = "continue" ->
                /\ vpc' = "top"
                /\ vround' = vround + 1
                /\ UNCHANGED <<vret, vk>>
    /\ UNCHANGED <<vkind, vcfg, vtokens, vresp, vappended, vclock, vcalls>>
    /\ UNCHANGED others

\* handleToolUse / handleToolCalls: ExecuteToolCall is invoked for the next
\* tool call of the turn, whatever the context; its error becomes the result
ExecuteNextTool ==
    /\ vpc = "tools"
    /\ vk <= vresp.calls
    /\ vk' = vk + 1
    /\ UNCHANGED <<vkind, vcfg, vpc, vround, vtokens, vresp, vappended, vclock, vret, vcalls>>
    /\ UNCHANGED others

\* The results are appended; claude and openrouter go to the next round,
\* gemini sends them to the model at once (handleToolCalls 349-355)
ToolsDone ==
    /\ vpc = "tools"
    /\ vk > vresp.calls
    /\ vappended' = ToolResultMessages(vkind, vresp.calls)
    /\ IF vkind = "gemini"
       THEN vpc' = "model" /\ UNCHANGED vround
       ELSE vpc' = "top" /\ vround' = vround + 1
    /\ UNCHANGED <<vkind, vcfg, vtokens, vresp, vk, vclock, vret, vcalls>>
    /\ UNCHANGED others

\* TimeoutSeconds have passed since the conversation was made
ClockExpires ==
    /\ vpc \notin {"idle", "done"}
    /\ ~vclock.expired
    /\ vclock' = [vclock EXCEPT !.expired = TRUE]
    /\ UNCHANGED <<vkind, vcfg, vpc, vround, vtokens, vresp, vk, vappended, vret, vcalls>>
    /\ UNCHANGED others

\* The caller cancels the context of Execute
CancelContext ==
    /\ vpc \notin {"idle", "done"}
    /\ ~vclock.cancelled
    /\ vclock' = [vclock EXCEPT !.cancelled = TRUE]
    /\ UNCHANGED <<vkind, vcfg, vpc, vround, vtokens, vresp, vk, vappended, vret, vcalls>>
    /\ UNCHANGED others

VNext ==
    \/ ExecuteSetup
    \/ RoundTop
    \/ ModelCallFails
    \/ \E r \in Responses, empty \in BOOLEAN : ModelCall(r, empty)
    \/ HandleResponse
    \/ ExecuteNextTool
    \/ ToolsDone
    \/ ClockExpires
    \/ CancelContext

-----------------------------------------------------------------------------
(* pipeline.ValidateTools: are the required tools among the available ones  *)

ToolNames == {"toolA", "toolB", "toolC"}

\* types.Tool, of which ValidateTools reads the name only
Tool(name) == [name |-> name]

RECURSIVE SeqsUpTo(_, _)
\* The sequences over S of length at most n
SeqsUpTo(S, n) ==
    IF n = 0 THEN {<<>>}
    ELSE LET shorter == SeqsUpTo(S, n - 1)
         IN  shorter \cup {Append(q, x) : q \in shorter, x \in S}

\* The error of ValidateTools: nil, or "missing required tools: [...]" with
\* the names it lists
NoError == [failed |-> FALSE, missing |-> <<>>]

MissingError(missing) == [failed |-> TRUE, missing |-> missing]

NotValidated == [failed |-> FALSE, missing |-> <<"?">>]

\* Mutant of ValidateTools: only the first absent name is reported
ValidateTools_FirstMissing(available, required) ==
    LET toolMap == {available[i].name : i \in 1..Len(available)}
        missing == SelectSeq(required, LAMBDA req : req \notin toolMap)
    IN  IF Len(missing) > 0 THEN MissingError(<<Head(missing)>>) ELSE NoError

\* ValidateTools (manifest.go 183-201)
ValidateTools(available, required) ==
    LET toolMap == {available[i].name : i \in 1..Len(available)}
        missing == SelectSeq(required, LAMBDA req : req \notin toolMap)
    IN  IF Len(missing) > 0 THEN MissingError(missing) ELSE NoError

QInit ==
    /\ qavailable \in SeqsUpTo({Tool(n) : n \in ToolNames}, MaxTools)
    /\ qrequired \in SeqsUpTo(ToolNames, MaxTools)
    /\ qret = NotValidated

QIdle ==
    /\ qavailable = <<>>
    /\ qrequired = <<>>
    /\ qret = NotValidated

Validate ==
    /\ qret = NotValidated
    /\ qret' = ValidateTools(qavailable, qrequired)
    /\ UNCHANGED <<qavailable, qrequired>>
    /\ UNCHANGED <<pvars, tvars, cvars, lvars, nvars, avars, vvars>>

QNext == Validate

-----------------------------------------------------------------------------
(* Specifications *)

vars == <<pvars, tvars, cvars, lvars, nvars, avars, vvars, qvars>>

\* The scripted pipeline; the transport is at rest
Init == PInit /\ TInit /\ CIdle /\ LInit /\ NIdle /\ AIdle /\ VIdle /\ QIdle

Next == PNext

Spec == Init /\ [][Next]_vars

\* The stdio transport; the pipeline is at rest
InitTransport == PIdle /\ TInit /\ CIdle /\ LInit /\ NIdle /\ AIdle /\ VIdle /\ QIdle

SpecTransport == InitTransport /\ [][TNext]_vars

\* The MCP client; the pipeline and the stdio transport are at rest
InitClient == PIdle /\ TInit /\ CInit /\ LInit /\ NIdle /\ AIdle /\ VIdle /\ QIdle

\* The life cycle of a stdio transport; the rest is at rest
InitLifecycle == PIdle /\ TInit /\ CIdle /\ LInit /\ NIdle /\ AIdle /\ VIdle /\ QIdle

SpecLifecycle == InitLifecycle /\ [][LNext]_vars

\* Qualified names: convertMCPToolToUnified then parseToolName on every pair
\* of names
InitNames == PIdle /\ TInit /\ CIdle /\ LInit /\ NInit /\ AIdle /\ VIdle /\ QIdle

SpecNames == InitNames /\ [][NNext]_vars

\* The tool adapter over every choice of servers and tool lists
InitAdapter == PIdle /\ TInit /\ CIdle /\ LInit /\ NIdle /\ AInit /\ VIdle /\ QIdle

SpecAdapter == InitAdapter /\ [][ANext]_vars

\* One Execute of a provider conversation, for every provider and configuration
InitConversation == PIdle /\ TInit /\ CIdle /\ LInit /\ NIdle /\ AIdle /\ VInit /\ QIdle

SpecConversation == InitConversation /\ [][VNext]_vars

\* One call of ValidateTools, for every pair of short argument lists
InitValidate == PIdle /\ TInit /\ CIdle /\ LInit /\ NIdle /\ AIdle /\ VIdle /\ QInit

SpecValidate == InitValidate /\ [][QNext]_vars

SpecClient == InitClient /\ [][CNext]_vars


-----------------------------------------------------------------------------
(* Observations used by the properties *)

Invoked == {hist.invoked[i] : i \in 1..Len(hist.invoked)}

Planned == {stages[i] : i \in 1..Len(stages)}

\* The MCP tools a stage body calls (steps.go 46, 106, 165, 256)
ToolsOfStage(s) ==
    CASE s = "segment_person"     -> {"detect", "fill"}
      [] s = "estimate_landmarks" -> {"analyze_image_from_path"}
      [] s = "search_music"       -> {"SearchRecordings"}
      [] OTHER                    -> {}

Returned == pc = "idle" /\ hist.runs > 0

-----------------------------------------------------------------------------
(* C1: a stage that the manifest loaded by Execute records as completed is  *)
(* never invoked by that Execute and none of its tools is called; every     *)
(* invoked body belongs to a planned stage that was not completed.          *)
IdempotentSkip ==
    /\ \A s \in Invoked :
          /\ hist.runStart.stages[s].status # "completed"
          /\ s \in Planned
    /\ \A s \in Stages :
          hist.runStart.stages[s].status = "completed"
              => hist.toolCalls \cap ToolsOfStage(s) = {}

\* a resumed run that started from a completed segment_person and went on
\* to invoke a later body
IdempotentSkipWitness ==
    /\ hist.runStart.stages["segment_person"].status = "completed"
    /\ "estimate_landmarks" \in Invoked
    /\ "analyze_image_from_path" \in hist.toolCalls

(* C2: a stage whose body always fails is invoked exactly max_retries times *)
(* over all runs, and the bound-exceeded error comes only after that.       *)
RetryBoundExact ==
    /\ \A s \in Stages :
          hist.attempts[s] = hist.fails[s] => hist.attempts[s] <= maxRetries
    /\ (Returned /\ ret.kind = "exceeded"
           /\ hist.attempts[ret.stage] = hist.fails[ret.stage])
          => hist.attempts[ret.stage] = maxRetries

RunningPersisted ==
    /\ pc = "body" =>
          /\ disk.kind = "json"
          /\ disk.doc.stages[stages[idx]].status = "running"
    /\ (Returned /\ ret.kind = "crashed" /\ ret.stage # "") =>
          /\ disk.kind = "json"
          /\ disk.doc.stages[ret.stage].status = "running"

(* C5: in the Execute that follows a recorded failure at stage F, no body   *)
(* of a stage preceding F is invoked; F is invoked iff its retry_count is   *)
(* below max_retries, otherwise Execute fails with the bound-exceeded error *)
(* and invokes no body.                                                     *)
ResumedAfterFailure ==
    /\ hist.prevRet.kind = "stage_failed"
    /\ hist.runStart.stages[hist.prevRet.stage].status = "failed"

ResumeSkipsPreceding ==
    ResumedAfterFailure =>
       LET F == hist.prevRet.stage
           canRetry == hist.runStart.stages[F].retry_count < maxRetries
       IN /\ \A s \in Invoked : Pos(s) >= Pos(F)
          /\ F \in Invoked => canRetry
          /\ (Returned /\ ret.kind # "crashed" /\ ~canRetry) =>
                /\ ret.kind = "exceeded"
                /\ ret.stage = F
                /\ hist.invoked = <<>>

(* C6 (as stated): when a body D returned a failure and Execute returned,   *)
(* the manifest on disk has current_stage = D, D failed with the message,   *)
(* retry_count one above its value before the run, and the completed stages *)
(* unchanged.                                                               *)
CompletedUntouched ==
    \A s \in Stages :
        hist.runStart.stages[s].status = "completed"
            => disk.doc.stages[s] = hist.runStart.stages[s]

FailureRecorded(D) ==
    /\ disk.kind = "json"
    /\ disk.doc.current_stage = D
    /\ disk.doc.stages[D].status = "failed"
    /\ disk.doc.stages[D].error = ret.err
    /\ ret.err # ""
    /\ disk.doc.stages[D].retry_count = hist.runStart.stages[D].retry_count + 1

FinalAllCompleted ==
    (Returned /\ ret.kind = "ok") =>
        /\ disk.kind = "json"
        /\ disk.doc.current_stage = "complete"
        /\ \A s \in Planned : disk.doc.stages[s].status = "completed"

(* C7 (amended): ... every planned stage is completed, except that          *)
(* search_music may be skipped.                                             *)
FinalCompletedOrSkipped ==
    (Returned /\ ret.kind = "ok") =>
        /\ disk.kind = "json"
        /\ disk.doc.current_stage = "complete"
        /\ \A s \in Planned :
              \/ disk.doc.stages[s].status = "completed"
              \/ s = "search_music" /\ disk.doc.stages[s].status = "skipped"

\* a successful run of the full plan whose music search was skipped
FinalCompletedOrSkippedWitness ==
    /\ Returned /\ ret.kind = "ok"
    /\ Len(stages) = 5
    /\ disk.doc.stages["search_music"].status = "skipped"
    /\ disk.doc.stages["compose"].status = "completed"

(* C8 (as stated): bodies are invoked in the declared order, and a body     *)
(* starts only when the preceding planned stage is completed on disk.       *)
InOrder ==
    \A i, j \in 1..Len(hist.invoked) :
        i < j => Pos(hist.invoked[i]) < Pos(hist.invoked[j])

SerialAfterCompleted ==
    /\ InOrder
    /\ (pc = "body" /\ idx > 1) =>
          /\ disk.kind = "json"
          /\ disk.doc.stages[stages[idx - 1]].status = "completed"

(* C8 (amended): ... is completed on disk, or, for search_music, skipped.   *)
SerialAfterCompletedOrSkipped ==
    /\ InOrder
    /\ (pc = "body" /\ idx > 1) =>
          /\ disk.kind = "json"
          /\ \/ disk.doc.stages[stages[idx - 1]].status = "completed"
             \/ /\ stages[idx - 1] = "search_music"
                /\ disk.doc.stages[stages[idx - 1]].status = "skipped"

\* compose starts in a resumed run after a skipped music search
SerialWitness ==
    /\ pc = "body" /\ stages[idx] = "compose"
    /\ hist.invoked = <<"search_music", "compose">>
    /\ disk.doc.stages["search_music"].status = "skipped"
    /\ disk.doc.stages["render_motion"].status = "completed"

(* C9: request ids are allocated 1, 2, 3, ... and never reused, so any two  *)
(* requests differ in id; a frame is put only on the channel of the pending *)
(* request with the frame's id and received only by that request's caller;  *)
(* a frame whose id is not pending, or that has no id, reaches no caller.   *)
RequestIdsUniqueAndRouted ==
    /\ \A i \in 1..Len(thist.issued) : thist.issued[i] = i
    /\ \A c, d \in Callers :
          (c # d /\ callers[c].pc # "idle" /\ callers[d].pc # "idle")
              => callers[c].id # callers[d].id
    /\ \A c \in Callers : callers[c].got # NoFrame => callers[c].got.id = callers[c].id
    /\ \A i \in DOMAIN pendingReqs :
          \A k \in 1..Len(pendingReqs[i]) : pendingReqs[i][k].id = i
    /\ thist.routed.to # 0 =>
          /\ thist.routed.wasPending
          /\ thist.routed.frame.id = thist.routed.to
    /\ (~thist.routed.wasPending \/ thist.routed.frame.id = 0) => thist.routed.to = 0

\* two requests in flight, answered out of order: the caller of request 2
\* has its response while request 1 still waits
RoutedWitness ==
    \E c, d \in Callers :
        /\ callers[c].pc = "waiting" /\ callers[c].id = 1
        /\ callers[d].pc = "cleanup" /\ callers[d].id = 2 /\ callers[d].got.id = 2
        /\ thist.routed.to = 2

(* C10: over any transport, a ListTools or CallTool made before a           *)
(* successful Initialize returns an error and sends no request.             *)
HandshakeRequired ==
    (clast.op \in {"tools/list", "tools/call"} /\ ~clast.handshook) =>
        /\ clast.ret = "error"
        /\ Len(csent) = clast.sentBefore

\* C11: a second Client.Initialize on a client whose Initialize has already
\* returned successfully fails and sends no second initialize request.
InitializeNotIdempotent ==
    (clast.op = "initialize" /\ clast.handshook)
        => /\ clast.ret = "error"
           /\ Len(csent) = clast.sentBefore

\* C12: whenever the transport returns a JSON-RPC error (code c, message m)
\* for tools/call, CallTool returns a nil result and an error from which a
\* JSONRPCError with exactly code c and message m can be unwrapped.
RpcErrorPropagated ==
    (clast.op = "tools/call" /\ cout.transport = "rpc_error")
        => /\ cout.ret = "error"
           /\ cout.result = NoToolResult
           /\ Len(cout.err) > 0
           /\ \E i \in 1..Len(cout.err) :
                /\ cout.err[i].kind = "JSONRPCError"
                /\ \A j \in 1..(i - 1) : cout.err[j].kind # "JSONRPCError"
                /\ cout.err[i].code = cout.rpc[1].code
                /\ cout.err[i].text = cout.rpc[1].text

\* the transport answered tools/call with error -32601 and the caller got it back
RpcErrorPropagatedWitness ==
    /\ clast.op = "tools/call"
    /\ cout.transport = "rpc_error"
    /\ cout.rpc[1].code = -32601
    /\ cout.ret = "error"
    /\ clast.calls >= 2

\* C13: whenever a tools/call result has isError = true, CallTool returns a
\* non-nil result with IsError = true carrying all content blocks of the
\* response, and a non-nil error whose text contains the first block's text;
\* when isError = false it returns the result and no error.
ToolErrorIsDataAndFailure ==
    (clast.op = "tools/call" /\ cout.received.present)
        => IF cout.received.isError
           THEN /\ cout.ret = "error"
                /\ cout.result = cout.received
                /\ Len(cout.err) > 0
                /\ Len(cout.received.content) > 0
                     => \E k \in 1..Len(cout.err[1].text) :
                           cout.err[1].text[k] = cout.received.content[1]
           ELSE /\ cout.ret = "ok"
                /\ cout.result = cout.received
                /\ cout.err = NilErr

\* readLoop is inside its send to the channel of caller c while holding the
\* lock, and c has left its select: c waits for the lock in its deferred
\* cleanup, the reader waits for room in a channel only c could empty
ReaderStuckOn(c) ==
    /\ callers[c].pc = "cleanup"
    /\ mu = "reader"
    /\ reader.pc = "blocked"
    /\ reader.frame.id = callers[c].id

\* C14: a request always ends: every SendRequest returns once the matching
\* response arrives, the timeout fires, the context ends or the transport
\* closes; a call whose context expired returns an error and never a result.
\* Safety part: no SendRequest that has left its select is held forever, and a
\* timed-out call carries no response.
RequestAlwaysEnds ==
    \A c \in Callers :
        /\ ~ReaderStuckOn(c)
        /\ callers[c].ret = "timeout" => callers[c].got = NoFrame

\* C15: when a pending SendRequest times out or is cancelled, its slot is
\* removed, a later response for that id is delivered to nobody, and every
\* other pending or future request can still receive its own response.
CancelLeavesOthersServed ==
    \A c \in Callers :
        callers[c].ret = "timeout"
            => /\ callers[c].got = NoFrame
               /\ \A d \in Callers \ {c} :
                     callers[d].pc \in {"idle", "waiting"} => ~ReaderStuckOn(c)

\* C16: if the server's output stream ends while k >= 1 requests are pending,
\* every waiting SendRequest returns 'transport closed': none hangs.  Safety
\* part: once the stream has ended, readLoop can still reach its end and close
\* readerDone for the waiting callers.
ClosureReachesWaiters ==
    (stdout.closed /\ \E d \in Callers : callers[d].pc = "waiting")
        => \A c \in Callers : ~ReaderStuckOn(c)

\* C17: a closed transport is terminal: after Close has returned, no later
\* Start brings the transport back up and no later SendRequest returns a
\* result; every such call fails.
ClosedIsTerminal ==
    (llast.afterClose /\ llast.op \in {"start", "send"})
        => llast.ret \notin {"ok", "result"}

\* A server name that has no "__" inside and no "_" at its end
Separable(name) ==
    /\ SeparatorsOf(name) = {}
    /\ Len(name) > 0 => name[Len(name)] # "_"

\* C18 (as stated): for every server name and tool name made of alphanumeric
\* characters and underscores, parseToolName applied to the name built by
\* convertMCPToolToUnified returns exactly (server, tool).
RoundTrip ==
    nparsed.done => nparsed = Parsed(nserver, ntool)

\* C18 (amended): the round trip holds for every tool name and every server
\* name that contains no "__" and does not end with "_".
RoundTripSeparable ==
    (nparsed.done /\ Separable(nserver)) => nparsed = Parsed(nserver, ntool)

\* a round trip on names that both carry an underscore
RoundTripWitness ==
    /\ nparsed.done
    /\ nserver = <<"_", "a">>
    /\ ntool = <<"_", "7">>
    /\ nparsed.ok

\* The qualified names of a tool list are pairwise distinct
DistinctNames(tools) ==
    \A i, j \in 1..Len(tools) : i # j => tools[i].name # tools[j].name

\* The last call was ExecuteToolCall on the name of a discovered tool and
\* reached the client and the tool that name was built from
RoutedToOrigin ==
    \A i \in 1..Len(toolsCache.tools) :
        (alast.op = "execute" /\ alast.q = toolsCache.tools[i].name)
            => /\ alast.called
               /\ <<alast.server, alast.tool>> = toolsCache.tools[i].origin

\* C19 (as stated): for any set of distinctly named servers, each listing
\* distinct tool names, the qualified names returned by
\* DiscoverAndConvertTools are pairwise distinct and ExecuteToolCall on each
\* of them reaches the server and tool it was built from.
NoCollision ==
    /\ alast.op = "discover" => DistinctNames(alast.returned)
    /\ RoutedToOrigin

\* C19 (amended): the same, for servers whose names contain no "__" and do
\* not end with "_".
NoCollisionSeparable ==
    (\A sv \in DOMAIN aclients : Separable(sv))
        => /\ alast.op = "discover" => DistinctNames(alast.returned)
           /\ DistinctNames(toolsCache.tools)
           /\ RoutedToOrigin

\* two servers list the same bare tool name and a call was routed to one of them
NoCollisionWitness ==
    /\ DOMAIN aclients = { <<"a">>, <<"7">> }
    /\ Len(toolsCache.tools) = 3
    /\ alast.op = "execute"
    /\ alast.called
    /\ alast.server = <<"7">>
    /\ \E i \in 1..Len(toolsCache.tools) : alast.q = toolsCache.tools[i].name

\* C20: for every subset of servers whose ListTools fails,
\* DiscoverAndConvertTools returns no error and returns exactly the renamed
\* tools of the servers whose ListTools succeeded.
DiscoveryToleratesFailure ==
    (alast.op = "discover" /\ alast.fresh)
        => /\ alast.ret = "ok"
           /\ \A sv \in DOMAIN aclients :
                \A k \in 1..Len(aclients[sv]) :
                    (sv \notin alast.failing)
                        <=> \E i \in 1..Len(alast.returned) :
                               alast.returned[i].origin = <<sv, aclients[sv][k]>>
           /\ \A i \in 1..Len(alast.returned) :
                LET o == alast.returned[i].origin
                IN  /\ o[1] \in DOMAIN aclients \ alast.failing
                    /\ \E k \in 1..Len(aclients[o[1]]) : aclients[o[1]][k] = o[2]
                    /\ alast.returned[i].name = o[1] \o <<"_", "_">> \o o[2]
                    /\ \A j \in 1..Len(alast.returned) :
                          i # j => alast.returned[j].origin # o

\* one of three servers failed and the tools of the other two were returned
DiscoveryToleratesFailureWitness ==
    /\ alast.op = "discover" /\ alast.fresh
    /\ Cardinality(DOMAIN aclients) = 3
    /\ Cardinality(alast.failing) = 1
    /\ \E sv \in alast.failing : Len(aclients[sv]) > 0
    /\ Len(alast.returned) >= 2

\* C21: discovery is memoized for the life of the adapter: after the first
\* DiscoverAndConvertTools has returned, no later call invokes ListTools on
\* any client and every later call returns the same tool list as the first,
\* whatever the first result was (an empty list included).
DiscoveryMemoized ==
    (alast.op = "discover" /\ alast.again)
        => /\ alast.listed = {}
           /\ alast.returned = afirst.tools
-----------------------------------------------------------------------------
(* Observations on the conversation loop *)

\* The step hands one more tool call to ExecuteToolCall
InvokesTool == vpc = "tools" /\ vk' = vk + 1

\* The last response got as far as the dispatch on its content (Execute did
\* not return at the cost check or for want of a choice)
Handled == ~(vpc = "done" /\ vret.why \in {"cost", "no_choices"})

\* Every tool call of the last response has run and its results were appended
ToolsRan == vresp.calls > 0 /\ vk > vresp.calls /\ vpc # "tools"

\* A bound of the configuration is exceeded
BoundHit ==
    \/ vtokens > vcfg.maxTokens
    \/ vtokens > vcfg.maxCostTokens
    \/ vclock.expired
    \/ vround > vcfg.maxRounds

RECURSIVE FlatIds(_)
\* The ids carried by a sequence of messages, in order
FlatIds(msgs) ==
    IF msgs = <<>> THEN <<>> ELSE Head(msgs).ids \o FlatIds(Tail(msgs))

\* C22: with max_rounds = N, one Execute of any provider calls the model at
\* most N+1 times, whatever the model answers (for Gemini, N is 20 when
\* max_rounds is 0).
ModelCallsBounded == vcalls <= EffectiveMaxRounds(vkind, vcfg) + 1

\* C23: once the tokens, the cost, the time or the rounds exceed their bound,
\* ExecuteToolCall is not invoked again, not even for the tool calls of the
\* response that crossed the bound.
NoToolAfterBound == [][BoundHit => ~InvokesTool]_vars

\* C24: when a model call of the Claude conversation brings the tokens above
\* max_tokens (and not above the cost cap), Execute returns the token-limit
\* failure even when the termination reason of that response is end_turn.
TokenCapAfterCall ==
    (/\ vkind = "claude"
     /\ vpc = "done"
     /\ vresp.stop = "end_turn"
     /\ vtokens > vcfg.maxTokens
     /\ vtokens <= vcfg.maxCostTokens)
        => vret = ExecuteResult("fail", "tokens", "")

\* C25 as stated: after an assistant turn with K tool calls, what is appended
\* before the next model call is one user message with the K results in the
\* order of the calls.
ToolResultsInOneUserMessage ==
    ToolsRan
        => /\ Len(vappended) = 1
           /\ vappended[1].role = "user"
           /\ vappended[1].ids = [i \in 1..vresp.calls |-> i]

\* C25 amended: after an assistant turn with K tool calls, what is appended
\* before the next model call carries exactly the K results, one per id and
\* in the order of the calls: in one user message for Claude and Gemini, in
\* K tool messages of one result each for OpenRouter.
ToolResultsDelivered ==
    ToolsRan
        => /\ FlatIds(vappended) = [i \in 1..vresp.calls |-> i]
           /\ IF vkind = "openrouter"
              THEN /\ Len(vappended) = vresp.calls
                   /\ \A i \in 1..Len(vappended) : vappended[i].role = "tool"
              ELSE /\ Len(vappended) = 1
                   /\ vappended[1].role = "user"

ToolResultsDeliveredWitness ==
    /\ vkind = "openrouter"
    /\ vresp.calls = 2
    /\ vpc = "model"
    /\ vk = 3
    /\ Len(vappended) = 2

\* C28: once the context is cancelled, the conversation dispatches no further
\* tool call to the tool adapter.
NoToolAfterCancel == [][vclock.cancelled => ~InvokesTool]_vars

\* C29 as stated (Claude): tool_use leads to tool execution and another model
\* call; end_turn and stop_sequence return the text of the response;
\* max_tokens fails with no tool executed.
ClaudeDispatchAsStated ==
    (vkind = "claude" /\ vpc = "done" /\ vcalls > 0)
        => CASE vresp.stop = "tool_use" -> vret.why = "api"
             [] vresp.stop \in {"end_turn", "stop_sequence"} ->
                    vret = ExecuteResult("ok", "", vresp.text)
             [] vresp.stop = "max_tokens" -> vret.kind = "fail" /\ vk = 0
             [] OTHER -> TRUE

\* C29 amended (Claude): a handled tool_use response has all its tools run
\* and is followed by another model call unless the rounds, the time or the
\* tokens are exhausted, in which case Execute fails; a handled end_turn or
\* stop_sequence response ends Execute successfully with its text, or with
\* "Task completed (no text output)" when it has none; a handled max_tokens
\* response ends Execute with a failure and none of its tools run.  A response
\* that brings the cost above the cap is not handled.
ClaudeDispatchRule ==
    [][(vkind = "claude" /\ vpc # vpc')
        => /\ vpc = "dispatch" =>
                CASE vresp.stop = "tool_use" -> vpc' = "tools"
                  [] vresp.stop \in {"end_turn", "stop_sequence"} ->
                        /\ vpc' = "done"
                        /\ vret' = ExecuteResult("ok", "",
                              IF vresp.text = ""
                              THEN "Task completed (no text output)"
                              ELSE vresp.text)
                        /\ vk = 0
                  [] vresp.stop = "max_tokens" ->
                        /\ vpc' = "done"
                        /\ vret'.kind = "fail"
                        /\ vk = 0
                  [] OTHER -> TRUE
           /\ (vpc = "tools") => (vk = vresp.calls + 1 /\ vpc' = "top")
           /\ (vpc = "top" /\ vcalls > 0) =>
                IF vround < vcfg.maxRounds /\ ~vclock.expired /\ vtokens <= vcfg.maxTokens
                THEN vpc' = "model"
                ELSE vpc' = "done" /\ vret'.kind = "fail"
           /\ (vpc = "model" /\ vtokens + vresp'.usage > vcfg.maxCostTokens /\ vresp' # vresp)
                => vpc' = "done" /\ vret' = ExecuteResult("fail", "cost", "")]_vars

ClaudeDispatchRuleWitness ==
    /\ vkind = "claude"
    /\ vpc = "done"
    /\ vcalls = 2
    /\ vresp.stop = "end_turn"
    /\ vresp.text = ""
    /\ vret = ExecuteResult("ok", "", "Task completed (no text output)")

\* C30: a handled response without tool calls whose termination reason is
\* none of tool_use, end_turn, max_tokens, stop_sequence ends Execute: with
\* its text as the result when it has text, with a failure and no further
\* round when it has none.
UnrecognisedTermination ==
    (vresp.stop = "other" /\ vresp.calls = 0 /\ vpc # "dispatch" /\ Handled)
        => /\ vpc = "done"
           /\ IF vresp.text # ""
              THEN vret = ExecuteResult("ok", "", vresp.text)
              ELSE vret.kind = "fail"

\* Number of positions of seq that hold x
CountOf(seq, x) == Cardinality({i \in 1..Len(seq) : seq[i] = x})

\* sub can be obtained from seq by deleting entries
IsSubsequence(sub, seq) ==
    \E f \in [1..Len(sub) -> 1..Len(seq)] :
        /\ \A i \in 1..Len(sub) : seq[f[i]] = sub[i]
        /\ \A i, j \in 1..Len(sub) : i < j => f[i] < f[j]

\* C26: ValidateTools returns no error iff every required name is the name
\* of an available tool; otherwise its error names exactly the required names
\* that are absent, in the order in which they appear in required.
ValidateToolsCorrect ==
    qret # NotValidated
        => LET names == {qavailable[i].name : i \in 1..Len(qavailable)}
           IN  /\ ~qret.failed <=> \A i \in 1..Len(qrequired) : qrequired[i] \in names
               /\ \A n \in ToolNames :
                    CountOf(qret.missing, n) =
                        IF n \in names THEN 0 ELSE CountOf(qrequired, n)
               /\ IsSubsequence(qret.missing, qrequired)

ValidateToolsCorrectWitness ==
    /\ qavailable = <<Tool("toolA"), Tool("toolB")>>
    /\ qrequired = <<"toolA", "toolC">>
    /\ qret = MissingError(<<"toolC">>)

\* C27: once the context is cancelled while a stage body runs, Execute
\* invokes no further stage body.
NoBodyAfterCancel == [][ctx.done => Len(hist'.invoked) <= Len(hist.invoked)]_vars

\* The stages of manifest m whose status is running
RunningStages(m) == {s \in Stages : m.stages[s].status = "running"}

\* At most one stage of m is running, and it is m's current stage
RunningIsCurrent(m) ==
    /\ Cardinality(RunningStages(m)) <= 1
    /\ \A s \in RunningStages(m) : m.current_stage = s

\* C31: in the manifest in memory, in the manifest file and in the temp
\* file, at most one stage has status running, and it equals current_stage.
OneRunningStage ==
    /\ RunningIsCurrent(mem)
    /\ RunningIsCurrent(disk.doc)
    /\ RunningIsCurrent(tmp.doc)

OneRunningStageWitness ==
    /\ pc = "body"
    /\ hist.runs = 2
    /\ RunningStages(mem) = {"render_motion"}
    /\ mem.current_stage = "render_motion"
    /\ mem.stages["segment_person"].status = "completed"

\* C32: ExecuteToolCall splits the name at the first "__" and invokes
\* CallTool on the client registered under the server part, with the bare
\* tool part and the arguments it was given; without a "__" or for an
\* unregistered server it returns an error and invokes no client; a CallTool
\* error or a result with is_error set is returned as a failure.
AdapterRouting ==
    alast.op = "execute"
        => LET q == alast.q
               seps == {i \in 1..(Len(q) - 1) : q[i] = "_" /\ q[i + 1] = "_"}
               first == CHOOSE i \in seps : \A j \in seps : i <= j
           IN  IF seps = {}
               THEN ~alast.called /\ alast.ret = "invalid_name"
               ELSE IF SubSeq(q, 1, first - 1) \notin DOMAIN aclients
               THEN ~alast.called /\ alast.ret = "server_not_found"
               ELSE /\ alast.called
                    /\ alast.server = SubSeq(q, 1, first - 1)
                    /\ alast.tool = SubSeq(q, first + 2, Len(q))
                    /\ alast.passed = alast.args
                    /\ alast.outcome = "error" => alast.ret = "call_failed"
                    /\ alast.outcome \in {"is_error", "panic"}
                          => alast.ret \in {"call_failed", "tool_error"}
                    /\ alast.outcome = "text" => alast.ret = "text"

\* C33: when Close has returned, the child process of the transport has
\* exited or been killed and the background reader has terminated.
CloseFinalizes ==
    (llast.op = "close" /\ lstarts = 1)
        => /\ lproc \in {"none", "exited", "killed"}
           /\ lreader \in {"none", "done"}

\* C34: the manifest file written by Execute holds the analysis whose
\* decision produced the stage list of the run, so that a resumed Execute
\* derives the same list from it.
PlanRecorded ==
    (disk.kind = "json" /\ hist.runs > 0)
        => /\ disk.doc.llm_analysis.present
           /\ pc # "idle" => stages = PlanStages(disk.doc.llm_analysis.decision)

\* C35: an Initialize sends at most the one initialize request; the
\* notifications/initialized notification goes out only when that request
\* succeeded, its result was parsed and the server info was stored; when the
\* request or the parse fails no notification goes out and Initialize returns
\* an error; when the notification fails Initialize returns an error.
HandshakeOrdered ==
    clast.op = "initialize"
        => LET sentNow == SubSeq(csent, clast.sentBefore + 1, Len(csent))
               notesNow == SubSeq(cnotes, chand.notesBefore + 1, Len(cnotes))
               answered == chand.req.res = "result" /\ chand.req.wellFormed
           IN  /\ sentNow = IF chand.req.sent THEN <<"initialize">> ELSE <<>>
               /\ notesNow \in {<<>>, <<"notifications/initialized">>}
               /\ notesNow # <<>> => answered /\ cserver
               /\ ~answered => notesNow = <<>> /\ clast.ret = "error"
               /\ (answered /\ ~chand.note.ok) => clast.ret = "error"
               /\ (answered /\ chand.note.ok) => clast.ret = "ok"

HandshakeOrderedWitness ==
    /\ clast.op = "initialize"
    /\ ckind = "stdio"
    /\ clast.ret = "ok"
    /\ csent = <<"initialize">>
    /\ cnotes = <<"notifications/initialized">>
    /\ cserver

\* C36: Execute called with pipeline id X resumes the manifest at the
\* manifest path only if the pipeline_id of that manifest is X.
ResumesOwnManifest ==
    [][\A id \in PipelineIds :
          (ExecuteBegin(id) /\ disk.kind = "json") => disk.doc.pipeline_id = id]_vars

\* C37: the background reader never stays in a send to a response slot while
\* it holds the transport lock: whenever it is inside such a send, the caller
\* that owns the slot has not left its select and can still take the frame
\* that fills the slot, so the send completes and the lock is released.
ReaderDeliveryCompletes ==
    \A c \in Callers :
        (reader.pc = "blocked" /\ mu = "reader" /\ reader.frame.id = callers[c].id)
            => callers[c].pc \in {"registered", "waiting"}


\* C38: Client.CallTool returns a value for every well-formed tools/call
\* result, whatever isError and the length of the content list are: it returns
\* the result without an error or the result with an error, and never aborts.
CallToolAlwaysReturns ==
    (clast.op = "tools/call" /\ cout.received.present)
        => /\ cout.ret \in {"ok", "error"}
           /\ cout.result.present
           /\ (cout.ret = "error") = cout.received.isError


\* C39: for every plan the manifest can carry, a stage body that reads or
\* writes manifest.Result runs only on a manifest whose Result bag has been
\* created, and Execute never ends in a nil-pointer abort.
ResultBagExists ==
    /\ (pc = "body" /\ stages[idx] # "segment_person") => mem.result.present
    /\ Returned => ret.kind # "panic"


\* C40: whenever Execute returns a stage-failure error, the incremented
\* retry_count of that stage is on disk or the returned error says that the
\* manifest could not be saved; hence, for max_retries >= 1, a stage whose
\* body always fails is attempted at most max_retries times over all runs,
\* also when a Save after a failure fails.
FailureCounted ==
    /\ disk.kind = "json"
    /\ disk.doc.stages[ret.stage].retry_count
           = hist.runStart.stages[ret.stage].retry_count + 1

FailureDurableOrReported ==
    /\ (Returned /\ ret.kind = "stage_failed")
          => FailureCounted \/ ret.err = "failed to save manifest"
    /\ \A s \in Stages :
          (maxRetries >= 1 /\ hist.attempts[s] = hist.fails[s])
              => hist.attempts[s] <= maxRetries

====
